---- MODULE Spec2Model ----
(***************************************************************************)
(* Atlas Sentinel: the ingestion-cache layer (three signal pipelines, the  *)
(* pipeline orchestrator and its background loop), the risk aggregator,    *)
(* the route registry, the handlers that assess a route and the cascade    *)
(* forecasters.                                                            *)
(*                                                                         *)
(* Time is the wall clock datetime.now(), counted in whole seconds.  A     *)
(* cache file is modelled by its content: absent, text that is not JSON,   *)
(* bytes that are not UTF-8, or a parsed JSON value (a dict is a function  *)
(* from its keys, a list is a sequence).  json.dump followed by json.load  *)
(* returns an equal value for the dicts, lists, strings and numbers the    *)
(* pipelines store, so a stored value is kept as the value itself; the     *)
(* time stamp is stored as the text isoformat() produces and read back by  *)
(* fromisoformat().                                                        *)
(*                                                                         *)
(* Numbers the code keeps as floats are exact rationals here.              *)
(***************************************************************************)
EXTENDS Integers, Sequences, FiniteSets, TLC

VARIABLES
    now,            \* datetime.now(), seconds
    trafficCache,   \* <port>_traffic.json, per port id
    weatherCache,   \* <region>_alerts.json / all_alerts.json
    newsCache,      \* <key>_<limit>_articles.json
    alertStore,     \* weather/alerts/<zone>_<timestamp>.json
    articleStore,   \* news/articles/<article_id>.json
    portHistory,    \* <port>_history.json, per port id
    last,           \* the most recent call and what it returned
    loop_pc,        \* position of continuous_ingestion
    wakeAt,         \* time at which the pending asyncio.sleep returns
    procs,          \* the ingest calls of concurrent processes, per process
    weights,        \* arguments given to RiskScorer(...)
    scorer,         \* the RiskScorer object
    probe,          \* the first direct call of compute_route_risk and its assessment
    routes          \* ontology.routes, per route id

vars == <<now, trafficCache, weatherCache, newsCache, alertStore, articleStore,
          portHistory, last, loop_pc, wakeAt, procs, weights, scorer, probe, routes>>

cacheVars == <<trafficCache, weatherCache, newsCache, alertStore, articleStore,
               portHistory>>
loopVars == <<loop_pc, wakeAt, procs>>
appVars == <<probe, routes>>
scorerVars == <<weights, scorer, appVars>>

-----------------------------------------------------------------------------
(* Bounds of the model *)

MaxTicks == 8        \* clock steps of the pipeline specifications
CoarseStep == 150    \* seconds per clock step of the pipeline specifications
MaxLoopTicks == 5    \* clock steps of the loop specification
FineStep == 60       \* seconds per clock step of the loop specification
MaxOrchTicks == 1    \* clock steps of the orchestrator specification
MaxWeight == 3       \* largest weight argument, in units of 0.05
MaxRiskTicks == 1    \* clock steps of the scoring specification
MaxNewsTicks == 2    \* clock steps of the article store specification
HourStep == 3600     \* seconds per clock step of the article store specification
MaxHistoryTicks == 2 \* clock steps of the history specification
HistoryStep == 345600 \* seconds per clock step of the history specification (4 days)
MaxHistoryLen == 3   \* entries of a history log

-----------------------------------------------------------------------------
(* Program constants, seconds *)

TrafficTTL == 300
WeatherTTL == 600
NewsTTL == 900
IntervalSeconds == 300
BackoffSeconds == 60

-----------------------------------------------------------------------------
(* Python values *)

None == [type |-> "null", v |-> << >>]
Dict(d) == [type |-> "dict", v |-> d]
List(s) == [type |-> "list", v |-> s]
EmptyDict == << >>

Get(d, k, default) == IF k \in DOMAIN d THEN d[k] ELSE default

truthy(val) ==
    CASE val.type = "dict" -> DOMAIN val.v # {}
      [] val.type = "list" -> Len(val.v) > 0
      [] OTHER -> FALSE

\* datetime.isoformat(): "HH:MM:SS" fields of the time of day (the date part
\* is carried in the hour field)
isoformat(t) == <<t \div 3600, (t \div 60) % 60, t % 60>>

\* datetime.fromisoformat(): ValueError unless the fields are in range
fromisoformat(s) ==
    IF s[1] >= 0 /\ s[2] \in 0..59 /\ s[3] \in 0..59
    THEN [exc |-> "none", val |-> s[1] * 3600 + s[2] * 60 + s[3]]
    ELSE [exc |-> "ValueError", val |-> 0]

-----------------------------------------------------------------------------
(* Cache files *)

NoFile == [exists |-> FALSE, text |-> "none", json |-> None]
JsonFile(val) == [exists |-> TRUE, text |-> "json", json |-> val]
GarbageFile == [exists |-> TRUE, text |-> "garbage", json |-> None]
NotUtf8File == [exists |-> TRUE, text |-> "not_utf8", json |-> None]
\* a file just opened with mode 'w', and a file that holds one document
\* followed by the end of a longer one, size characters in all
EmptyFile == [exists |-> TRUE, text |-> "empty", json |-> None]
MixedFile(size) == [exists |-> TRUE, text |-> "mixed", json |-> None, size |-> size]

\* the file at a path of a cache directory
FileAt(cache, key) == IF key \in DOMAIN cache THEN cache[key] ELSE NoFile

\* open(path, 'w') followed by json.dump
WriteFile(cache, key, file) ==
    [k \in DOMAIN cache \cup {key} |-> IF k = key THEN file ELSE cache[k]]

\* _save_cache: {'timestamp': datetime.now().isoformat(), 'data': data}
_save_cache(data, t) ==
    JsonFile(Dict([timestamp |-> isoformat(t), data |-> data]))

\* _load_cache: FileNotFoundError and JSONDecodeError give None, any other
\* error (UnicodeDecodeError for undecodable bytes) is not caught
_load_cache(file) ==
    CASE ~file.exists -> [exc |-> "none", val |-> None]
      [] file.text \in {"garbage", "empty", "mixed"} -> [exc |-> "none", val |-> None]
      [] file.text = "not_utf8" -> [exc |-> "UnicodeDecodeError", val |-> None]
      [] OTHER -> [exc |-> "none", val |-> file.json]

\* 'timestamp' in cache_data: key test on a dict, element test on a list
HasTimestamp(cache_data) ==
    IF cache_data.type = "dict"
    THEN "timestamp" \in DOMAIN cache_data.v
    ELSE \E i \in DOMAIN cache_data.v : cache_data.v[i] = "timestamp"

\* _is_cache_valid with `<=` in place of `<`
_is_cache_valid_inclusive(cache_data, t, ttl) ==
    IF ~HasTimestamp(cache_data)
    THEN [exc |-> "none", val |-> FALSE]
    ELSE IF cache_data.type # "dict"
    THEN [exc |-> "TypeError", val |-> FALSE]
    ELSE LET cache_time == fromisoformat(cache_data.v["timestamp"])
         IN  IF cache_time.exc # "none"
             THEN [exc |-> cache_time.exc, val |-> FALSE]
             ELSE [exc |-> "none", val |-> t - cache_time.val <= ttl]

\* _is_cache_valid with the operands of the subtraction exchanged
_is_cache_valid_swapped(cache_data, t, ttl) ==
    IF ~HasTimestamp(cache_data)
    THEN [exc |-> "none", val |-> FALSE]
    ELSE IF cache_data.type # "dict"
    THEN [exc |-> "TypeError", val |-> FALSE]
    ELSE LET cache_time == fromisoformat(cache_data.v["timestamp"])
         IN  IF cache_time.exc # "none"
             THEN [exc |-> cache_time.exc, val |-> FALSE]
             ELSE [exc |-> "none", val |-> cache_time.val - t < ttl]

\* _is_cache_valid(cache_data) at time t for a pipeline with cache_duration ttl
_is_cache_valid(cache_data, t, ttl) ==
    IF ~HasTimestamp(cache_data)
    THEN [exc |-> "none", val |-> FALSE]
    ELSE IF cache_data.type # "dict"
    THEN [exc |-> "TypeError", val |-> FALSE]   \* list indexed by a string
    ELSE LET cache_time == fromisoformat(cache_data.v["timestamp"])
         IN  IF cache_time.exc # "none"
             THEN [exc |-> cache_time.exc, val |-> FALSE]
             ELSE [exc |-> "none", val |-> t - cache_time.val < ttl]

\* cache_data['data']
DataOf(cache_data) ==
    IF cache_data.type # "dict" THEN [exc |-> "TypeError", val |-> EmptyDict]
    ELSE IF "data" \notin DOMAIN cache_data.v
    THEN [exc |-> "KeyError", val |-> EmptyDict]
    ELSE [exc |-> "none", val |-> cache_data.v["data"]]

\* The body of the "Check cache" block of the three ingest methods:
\*       cache_data = self._load_cache(cache_file)
\*       if cache_data and self._is_cache_valid(cache_data):
\*           return cache_data['data']
ReadCache(file, t, ttl) ==
    LET miss == [exc |-> "none", hit |-> FALSE, ret |-> EmptyDict]
        raise(e) == [exc |-> e, hit |-> FALSE, ret |-> EmptyDict]
        cache_data == _load_cache(file)
    IN  IF cache_data.exc # "none" THEN raise(cache_data.exc)
        ELSE IF ~truthy(cache_data.val) THEN miss
        ELSE LET valid == _is_cache_valid(cache_data.val, t, ttl)
             IN  IF valid.exc # "none" THEN raise(valid.exc)
                 ELSE IF ~valid.val THEN miss
                 ELSE LET data == DataOf(cache_data.val)
                      IN  IF data.exc # "none" THEN raise(data.exc)
                          ELSE [exc |-> "none", hit |-> TRUE, ret |-> data.val]

\* CheckCache with the test of force_refresh inverted
CheckCache_inverted(file, force_refresh, t, ttl) ==
    IF ~force_refresh \/ ~file.exists
    THEN [exc |-> "none", hit |-> FALSE, ret |-> EmptyDict]
    ELSE ReadCache(file, t, ttl)

\* CheckCache without the test of force_refresh
CheckCache_unforced(file, force_refresh, t, ttl) ==
    IF ~file.exists
    THEN [exc |-> "none", hit |-> FALSE, ret |-> EmptyDict]
    ELSE ReadCache(file, t, ttl)

\* The "Check cache" block: if not force_refresh and cache_file.exists(): ...
CheckCache(file, force_refresh, t, ttl) ==
    IF force_refresh \/ ~file.exists
    THEN [exc |-> "none", hit |-> FALSE, ret |-> EmptyDict]
    ELSE ReadCache(file, t, ttl)

-----------------------------------------------------------------------------
(* The source adapters (DataSimulator) *)

Ports == {"LAX", "SHG"}
WeatherZones == <<"North America", "Asia">>
RegionOf(port_id) == IF port_id = "LAX" THEN "North America" ELSE "Asia"
PortsOfRegion(region) == {p \in Ports : RegionOf(p) = region}

VesselCounts == {40, 41}
Severities == {"moderate"}
ArticleIds == {1000}
ArticleCounts(limit) == {n \in {1} : n <= limit}

\* generate_port_traffic(port_id), called at t: {} for a port id the
\* simulator does not have
generate_port_traffic(port_id, t) ==
    IF port_id \notin Ports THEN {EmptyDict}
    ELSE { [port_id |-> port_id, vessel_count |-> n, timestamp |-> isoformat(t)] :
             n \in VesselCounts }

\* generate_weather_alert(region), called at t
generate_weather_alert(region, t) ==
    { [weather_zone |-> region, severity |-> sev, duration_hours |-> 12,
       timestamp |-> isoformat(t)] : sev \in Severities }

\* generate_news_article(port_id), called at t
generate_news_article(port_id, t) ==
    { [article_id |-> id, port_id |-> port_id, region |-> RegionOf(port_id),
       sentiment_score |-> -500, timestamp |-> isoformat(t)] : id \in ArticleIds }

\* An adapter call either returns a value or fails (the source is
\* unavailable); the simulator of the repository always returns.
SourceUnavailable == [exc |-> "SourceUnavailable", val |-> EmptyDict]
Returned(vals) == { [exc |-> "none", val |-> d] : d \in vals }

TrafficOutcomes(port_id, t) ==
    Returned(generate_port_traffic(port_id, t)) \cup {SourceUnavailable}

-----------------------------------------------------------------------------
(* PortTrafficPipeline *)

\* 'increasing' also when the vessel count has not changed
trend_not_less(vessel_count, previous) ==
    IF vessel_count >= previous THEN "increasing" ELSE "decreasing"

\* 'increasing' if traffic_data['vessel_count'] > previous else 'decreasing'
trend(vessel_count, previous) ==
    IF vessel_count > previous THEN "increasing" ELSE "decreasing"

\* "Add historical context": previous_vessel_count and trend from the
\* previous cache file, when it loads
AddHistoricalContext(file, traffic_data) ==
    LET keep == [exc |-> "none", val |-> traffic_data]
        raise(e) == [exc |-> e, val |-> traffic_data]
    IN  IF ~file.exists THEN keep
        ELSE LET previous_data == _load_cache(file)
             IN  IF previous_data.exc # "none" THEN raise(previous_data.exc)
                 ELSE IF ~truthy(previous_data.val) THEN keep
                 ELSE LET prev == DataOf(previous_data.val)
                      IN  IF prev.exc # "none" THEN raise(prev.exc)
                          ELSE IF "vessel_count" \notin DOMAIN traffic_data
                          THEN raise("KeyError")
                          ELSE LET pv == Get(prev.val, "vessel_count", 0)
                               IN  [exc |-> "none",
                                    val |-> [k \in DOMAIN traffic_data \cup
                                                   {"previous_vessel_count", "trend"} |->
                                               CASE k = "previous_vessel_count" -> pv
                                                 [] k = "trend" ->
                                                      trend(traffic_data["vessel_count"], pv)
                                                 [] OTHER -> traffic_data[k]]]

\* What an ingest returns: the exception it raised or the value returned,
\* whether it wrote the cache file and with what, whether it called the adapter
Raised(e, file, called) ==
    [exc |-> e, ret |-> EmptyDict, wrote |-> FALSE, file |-> file,
     adapter_called |-> called]
CacheHit(ret, file) ==
    [exc |-> "none", ret |-> ret, wrote |-> FALSE, file |-> file,
     adapter_called |-> FALSE]
Generated(ret, t) ==
    [exc |-> "none", ret |-> ret, wrote |-> TRUE, file |-> _save_cache(ret, t),
     adapter_called |-> TRUE]

\* ingest_port_traffic(port_id, force_refresh) at time t on cache file `file`,
\* the adapter answering `gen` if it is called
ingest_port_traffic(file, port_id, force_refresh, gen, t) ==
    LET chk == CheckCache(file, force_refresh, t, TrafficTTL)
    IN  IF chk.exc # "none" THEN Raised(chk.exc, file, FALSE)
        ELSE IF chk.hit THEN CacheHit(chk.ret, file)
        ELSE IF gen.exc # "none" THEN Raised(gen.exc, file, TRUE)
        ELSE LET traffic_data == AddHistoricalContext(file, gen.val)
             IN  IF traffic_data.exc # "none"
                 THEN Raised(traffic_data.exc, file, TRUE)
                 ELSE Generated(traffic_data.val, t)

\* the record of a call made at time t with cache file `pre`
Call(op, key, force, pre, r, t) ==
    [op |-> op, key |-> key, force |-> force, at |-> t, pre |-> pre,
     exc |-> r.exc, adapter_called |-> r.adapter_called, ret |-> r.ret]

\* no call made yet
NoCall == [op |-> "none", key |-> "none", force |-> FALSE, at |-> 0, pre |-> NoFile,
           exc |-> "none",
           adapter_called |-> FALSE, ret |-> EmptyDict]

\* the files of the data directory
Files == [trafficCache |-> trafficCache, weatherCache |-> weatherCache,
          newsCache |-> newsCache, alertStore |-> alertStore,
          articleStore |-> articleStore, portHistory |-> portHistory]

SetFiles(fs) ==
    /\ trafficCache' = fs.trafficCache
    /\ weatherCache' = fs.weatherCache
    /\ newsCache' = fs.newsCache
    /\ alertStore' = fs.alertStore
    /\ articleStore' = fs.articleStore
    /\ portHistory' = fs.portHistory

\* one call of ingest_port_traffic on the files fs: the files after it and
\* the record of the call
ApplyTraffic(fs, port_id, force_refresh, gen, t) ==
    LET pre == FileAt(fs.trafficCache, port_id)
        r == ingest_port_traffic(pre, port_id, force_refresh, gen, t)
    IN  [fs |-> IF r.wrote
                THEN [fs EXCEPT !.trafficCache = WriteFile(@, port_id, r.file)]
                ELSE fs,
         call |-> Call("ingest_port_traffic", port_id, force_refresh, pre, r, t)]

IngestPortTraffic(port_id, force_refresh) ==
    \E gen \in TrafficOutcomes(port_id, now) :
        LET a == ApplyTraffic(Files, port_id, force_refresh, gen, now)
        IN  /\ SetFiles(a.fs)
            /\ last' = a.call
            /\ UNCHANGED <<now, loopVars, scorerVars>>

\* update_port_history: the entry appended for traffic_data at time t
history_entry(traffic_data, t) ==
    [timestamp |-> Get(traffic_data, "timestamp", isoformat(t)),
     vessel_count |-> Get(traffic_data, "vessel_count", 0),
     wait_time_hours |-> Get(traffic_data, "wait_time_hours", 0),
     congestion_index |-> Get(traffic_data, "congestion_index", 0)]

\* update_port_history(port_id, traffic_data) at time t on the log `history`:
\* append, then "Keep only last 7 days"
update_port_history(history, traffic_data, t) ==
    LET cutoff_time == t - 7 * 86400
        recent(entry) == fromisoformat(entry.timestamp).val >= cutoff_time
    IN  SelectSeq(Append(history, history_entry(traffic_data, t)), recent)

\* traffic.update_port_history(port_id, traffic_data); no code of the
\* repository calls it
UpdatePortHistory(port_id) ==
    \E traffic_data \in generate_port_traffic(port_id, now) :
        LET history == Get(portHistory, port_id, << >>)
        IN  /\ Len(history) < MaxHistoryLen
            /\ portHistory' = WriteFile(portHistory, port_id,
                                        update_port_history(history, traffic_data, now))
            /\ last' = [NoCall EXCEPT !.op = "update_port_history", !.key = port_id,
                           !.at = now]
            /\ UNCHANGED <<now, trafficCache, weatherCache, newsCache, alertStore,
                           articleStore, loopVars, scorerVars>>

-----------------------------------------------------------------------------
(* ingest_port_traffic of one port called in several processes that share   *)
(* the data directory.  A call is a sequence of steps, one per access to    *)
(* the cache file; the steps of different calls interleave.  json.dump      *)
(* writes into the buffer of the file object, which goes to the file in one *)
(* write at offset 0 when the with block closes the file.                   *)

ProcIds == {1, 2}
IdleProc == [pc |-> "idle", force |-> FALSE, seen |-> "none", data |-> EmptyDict,
             ret |-> EmptyDict, exc |-> "none", wrote |-> EmptyDict]

\* vessel counts whose JSON texts differ in length
ShortAndLongCounts == {9, 10}

\* the number of characters json.dump writes for the cache entry of `data`,
\* up to a constant
Digits(n) == IF n < 10 THEN 1 ELSE 2
TextLen(data) ==
    Digits(data.vessel_count)
    + IF "previous_vessel_count" \in DOMAIN data
      THEN 40 + Digits(data.previous_vessel_count) ELSE 0

\* the size of a file
FileSize(file) ==
    IF ~file.exists \/ file.text = "empty" THEN 0
    ELSE IF file.text = "mixed" THEN file.size
    ELSE TextLen(file.json.v.data)

\* write(fd, text) at offset 0 of a file opened before: the characters of the
\* file beyond the text stay
Overwrite(file, data, t) ==
    IF FileSize(file) > TextLen(data) THEN MixedFile(FileSize(file))
    ELSE _save_cache(data, t)

\* the call begins: the "Check cache" block
ProcCheck(p, port_id, force_refresh) ==
    /\ procs[p].pc = "idle"
    /\ LET chk == CheckCache(FileAt(trafficCache, port_id), force_refresh, now, TrafficTTL)
       IN  procs' = [procs EXCEPT ![p] =
                        [@ EXCEPT !.force = force_refresh, !.exc = chk.exc,
                                  !.seen = IF chk.hit THEN "hit" ELSE "miss",
                                  !.ret = chk.ret, !.data = EmptyDict,
                                  !.pc = IF chk.exc # "none" \/ chk.hit
                                         THEN "done" ELSE "generate"]]
    /\ UNCHANGED <<now, cacheVars, last, loop_pc, wakeAt, scorerVars>>

\* generate_port_traffic and "Add historical context"
ProcGenerate(p, port_id) ==
    /\ procs[p].pc = "generate"
    /\ \E n \in ShortAndLongCounts :
         LET gen == [port_id |-> port_id, vessel_count |-> n, timestamp |-> isoformat(now)]
             traffic_data == AddHistoricalContext(FileAt(trafficCache, port_id), gen)
         IN  procs' = [procs EXCEPT ![p] =
                          [@ EXCEPT !.exc = traffic_data.exc, !.data = traffic_data.val,
                                    !.pc = IF traffic_data.exc # "none"
                                           THEN "done" ELSE "open"]]
    /\ UNCHANGED <<now, cacheVars, last, loop_pc, wakeAt, scorerVars>>

\* _save_cache: open(cache_file, 'w') truncates the file
ProcOpen(p, port_id) ==
    /\ procs[p].pc = "open"
    /\ trafficCache' = WriteFile(trafficCache, port_id, EmptyFile)
    /\ procs' = [procs EXCEPT ![p].pc = "write"]
    /\ UNCHANGED <<now, weatherCache, newsCache, alertStore, articleStore, portHistory,
                   last, loop_pc, wakeAt, scorerVars>>

\* _save_cache: the with block ends, the text is written; return traffic_data
ProcWrite(p, port_id) ==
    /\ procs[p].pc = "write"
    /\ trafficCache' = WriteFile(trafficCache, port_id,
                                 Overwrite(FileAt(trafficCache, port_id), procs[p].data, now))
    /\ procs' = [procs EXCEPT ![p] = [@ EXCEPT !.pc = "done", !.ret = procs[p].data,
                                               !.wrote = procs[p].data]]
    /\ UNCHANGED <<now, weatherCache, newsCache, alertStore, articleStore, portHistory,
                   last, loop_pc, wakeAt, scorerVars>>

\* the caller has the result and may call again
ProcReturn(p) ==
    /\ procs[p].pc = "done"
    /\ procs' = [procs EXCEPT ![p].pc = "idle"]
    /\ UNCHANGED <<now, cacheVars, last, loop_pc, wakeAt, scorerVars>>

-----------------------------------------------------------------------------
(* WeatherPipeline *)

\* region None (or ""): all zones, cached in all_alerts.json
WeatherKey(region) == IF region = "" THEN "all" ELSE region
WeatherRegions(region) == IF region = "" THEN WeatherZones ELSE <<region>>

\* the answers of generate_weather_alert to the calls of one ingest
WeatherOutcomes(region, t) ==
    LET regs == WeatherRegions(region)
    IN  { g \in [1..Len(regs) -> Returned(UNION {generate_weather_alert(regs[i], t) :
                                                   i \in 1..Len(regs)})
                                 \cup {SourceUnavailable}] :
            \A i \in 1..Len(regs) :
                g[i].exc = "none" => g[i].val.weather_zone = regs[i] }

\* _store_alert for each alert: alerts/<weather_zone>_<timestamp>.json
StoreAlerts(store, alerts) ==
    LET ids == { <<alerts[i].weather_zone, alerts[i].timestamp>> : i \in 1..Len(alerts) }
        lastOf(id) == CHOOSE i \in 1..Len(alerts) :
                         /\ <<alerts[i].weather_zone, alerts[i].timestamp>> = id
                         /\ \A j \in 1..Len(alerts) :
                              <<alerts[j].weather_zone, alerts[j].timestamp>> = id => j <= i
    IN  [id \in DOMAIN store \cup ids |->
            IF id \in ids THEN alerts[lastOf(id)] ELSE store[id]]

\* ingest_weather_alerts(region, force_refresh)
ingest_weather_alerts(file, region, force_refresh, gens, t) ==
    LET chk == CheckCache(file, force_refresh, t, WeatherTTL)
    IN  IF chk.exc # "none" THEN Raised(chk.exc, file, FALSE)
        ELSE IF chk.hit THEN CacheHit(chk.ret, file)
        ELSE IF \E i \in DOMAIN gens : gens[i].exc # "none"
        THEN Raised("SourceUnavailable", file, TRUE)
        ELSE Generated([i \in DOMAIN gens |-> gens[i].val], t)

ApplyWeather(fs, region, force_refresh, gens, t) ==
    LET key == WeatherKey(region)
        pre == FileAt(fs.weatherCache, key)
        r == ingest_weather_alerts(pre, region, force_refresh, gens, t)
    IN  [fs |-> IF r.wrote
                THEN [fs EXCEPT !.weatherCache = WriteFile(@, key, r.file),
                                !.alertStore = StoreAlerts(@, r.ret)]
                ELSE fs,
         call |-> Call("ingest_weather_alerts", key, force_refresh, pre, r, t)]

IngestWeatherAlerts(region, force_refresh) ==
    \E gens \in WeatherOutcomes(region, now) :
        LET a == ApplyWeather(Files, region, force_refresh, gens, now)
        IN  /\ SetFiles(a.fs)
            /\ last' = a.call
            /\ UNCHANGED <<now, loopVars, scorerVars>>

\* get_active_alerts: severity_levels.get(severity, default)
severity_levels(severity, default) ==
    CASE severity = "light" -> 1
      [] severity = "moderate" -> 2
      [] severity = "severe" -> 3
      [] severity = "extreme" -> 4
      [] OTHER -> default

\* get_active_alerts, the loop over all_alerts at time t
ActiveOf(all_alerts, severity_threshold, t) ==
    LET threshold_level == severity_levels(severity_threshold, 2)
        keep(alert) ==
            /\ severity_levels(alert.severity, 0) >= threshold_level
            /\ t - fromisoformat(alert.timestamp).val
                   < Get(alert, "duration_hours", 24) * 3600
    IN  SelectSeq(all_alerts, keep)

\* the answers of generate_weather_alert over the severities it draws from
AlertSeverities == {"light", "moderate", "severe"}
AlertOutcomes(t) ==
    { [i \in 1..Len(WeatherZones) |->
          [exc |-> "none",
           val |-> [weather_zone |-> WeatherZones[i], severity |-> sev[i],
                    duration_hours |-> 12, timestamp |-> isoformat(t)]]] :
        sev \in [1..Len(WeatherZones) -> AlertSeverities] }

\* get_active_alerts(severity_threshold): all_alerts = ingest_weather_alerts()
GetActiveAlerts(severity_threshold) ==
    \E gens \in AlertOutcomes(now) :
        LET a == ApplyWeather(Files, "", FALSE, gens, now)
        IN  /\ SetFiles(a.fs)
            /\ last' = [a.call EXCEPT
                          !.op = "get_active_alerts",
                          !.key = severity_threshold,
                          !.ret = IF a.call.exc = "none"
                                  THEN ActiveOf(a.call.ret, severity_threshold, now)
                                  ELSE a.call.ret]
            /\ UNCHANGED <<now, loopVars, scorerVars>>

-----------------------------------------------------------------------------
(* NewsPipeline *)

\* cache_key = f"{port_id or region or 'all'}_{limit}"
NewsKey(port_id, region, limit) ==
    <<IF port_id # "" THEN port_id ELSE IF region # "" THEN region ELSE "all", limit>>

\* the ports generate_news_article may be called for
NewsPorts(port_id, region) ==
    IF port_id # "" THEN {port_id}
    ELSE IF region # "" THEN PortsOfRegion(region)
    ELSE Ports

\* article_count = random.randint(1, limit) calls of generate_news_article
NewsOutcomes(port_id, region, limit, t) ==
    LET arts == UNION {generate_news_article(p, t) : p \in NewsPorts(port_id, region)}
    IN  UNION { [1..n -> Returned(arts) \cup {SourceUnavailable}] :
                  n \in ArticleCounts(limit) }

\* _store_article for each article: articles/<article_id>.json
StoreArticles(store, articles) ==
    LET ids == { articles[i].article_id : i \in 1..Len(articles) }
        lastOf(id) == CHOOSE i \in 1..Len(articles) :
                         /\ articles[i].article_id = id
                         /\ \A j \in 1..Len(articles) :
                              articles[j].article_id = id => j <= i
    IN  [id \in DOMAIN store \cup ids |->
            IF id \in ids THEN articles[lastOf(id)] ELSE store[id]]

\* ingest_news_articles(port_id, region, limit, force_refresh)
ingest_news_articles(file, port_id, region, limit, force_refresh, gens, t) ==
    LET chk == CheckCache(file, force_refresh, t, NewsTTL)
    IN  IF chk.exc # "none" THEN Raised(chk.exc, file, FALSE)
        ELSE IF chk.hit THEN CacheHit(chk.ret, file)
        ELSE IF \E i \in DOMAIN gens : gens[i].exc # "none"
        THEN Raised("SourceUnavailable", file, TRUE)
        ELSE Generated([i \in DOMAIN gens |-> gens[i].val], t)

ApplyNews(fs, port_id, region, limit, force_refresh, gens, t) ==
    LET key == NewsKey(port_id, region, limit)
        pre == FileAt(fs.newsCache, key)
        r == ingest_news_articles(pre, port_id, region, limit, force_refresh, gens, t)
    IN  [fs |-> IF r.wrote
                THEN [fs EXCEPT !.newsCache = WriteFile(@, key, r.file),
                                !.articleStore = StoreArticles(@, r.ret)]
                ELSE fs,
         call |-> Call("ingest_news_articles", key, force_refresh, pre, r, t)]

IngestNewsArticles(port_id, region, limit, force_refresh) ==
    \E gens \in NewsOutcomes(port_id, region, limit, now) :
        LET a == ApplyNews(Files, port_id, region, limit, force_refresh, gens, now)
        IN  /\ SetFiles(a.fs)
            /\ last' = a.call
            /\ UNCHANGED <<now, loopVars, scorerVars>>

\* the answers of generate_news_article(port_id) to an ingest that draws one
\* article: article ids repeat (random.randint(1000, 9999))
WideArticleIds == {1000, 1001}
ArticleOutcomes(port_id, t) ==
    { <<[exc |-> "none",
         val |-> [article_id |-> id, port_id |-> port_id, region |-> RegionOf(port_id),
                  sentiment_score |-> IF id = 1000 THEN -500 ELSE 500,
                  timestamp |-> isoformat(t)]]>> : id \in WideArticleIds }

\* ingest_news_articles(port_id=port_id, limit=5, force_refresh)
IngestNewsOfPort(port_id, force_refresh) ==
    \E gens \in ArticleOutcomes(port_id, now) :
        LET a == ApplyNews(Files, port_id, "", 5, force_refresh, gens, now)
        IN  /\ SetFiles(a.fs)
            /\ last' = a.call
            /\ UNCHANGED <<now, loopVars, scorerVars>>

\* article files json.load or the code after it cannot use: text that is not
\* JSON, bytes that are not UTF-8, a JSON list, a dict without 'timestamp',
\* a timestamp fromisoformat rejects
CorruptArticles ==
    { [corrupt |-> "garbage"], [corrupt |-> "not_utf8"], [corrupt |-> "list"],
      [article_id |-> 1000, port_id |-> "LAX", sentiment_score |-> -500],
      [article_id |-> 1000, port_id |-> "LAX", sentiment_score |-> -500,
       timestamp |-> <<0, 99, 0>>] }

\* the exception of open, json.load, article['timestamp'] and fromisoformat
\* on an article file, "none" when all succeed
ReadArticle(rec) ==
    IF "corrupt" \in DOMAIN rec
    THEN CASE rec.corrupt = "garbage" -> "JSONDecodeError"
           [] rec.corrupt = "not_utf8" -> "UnicodeDecodeError"
           [] OTHER -> "TypeError"
    ELSE IF "timestamp" \notin DOMAIN rec THEN "KeyError"
    ELSE fromisoformat(rec.timestamp).exc

\* a min_sentiment that is not None
Num(x) == [type |-> "num", v |-> x]

\* get_recent_articles, the loop over articles_dir.glob('*.json') taken in
\* the order `order`
RECURSIVE ScanArticles(_, _, _, _, _, _, _)
ScanArticles(store, order, k, port_id, cutoff_time, min_sentiment, articles) ==
    IF k > Len(order) THEN [exc |-> "none", val |-> articles]
    ELSE LET article == store[order[k]]
             e == ReadArticle(article)
             next(acc) == ScanArticles(store, order, k + 1, port_id, cutoff_time,
                                       min_sentiment, acc)
         IN  IF e \in {"JSONDecodeError", "KeyError"} THEN next(articles)
             ELSE IF e # "none" THEN [exc |-> e, val |-> << >>]
             ELSE IF fromisoformat(article.timestamp).val < cutoff_time
             THEN next(articles)
             ELSE IF port_id # "" /\ Get(article, "port_id", "") # port_id
             THEN next(articles)
             ELSE IF min_sentiment.type # "null"
                       /\ Get(article, "sentiment_score", 0) > min_sentiment.v
             THEN next(articles)
             ELSE next(Append(articles, article))

\* articles.sort(key=timestamp, reverse=True): stable
RECURSIVE InsertByTime(_, _)
InsertByTime(sorted, a) ==
    IF sorted = << >> THEN <<a>>
    ELSE IF fromisoformat(Head(sorted).timestamp).val < fromisoformat(a.timestamp).val
    THEN <<a>> \o sorted
    ELSE <<Head(sorted)>> \o InsertByTime(Tail(sorted), a)

RECURSIVE SortByTime(_)
SortByTime(as) ==
    IF as = << >> THEN << >>
    ELSE InsertByTime(SortByTime(SubSeq(as, 1, Len(as) - 1)), as[Len(as)])

\* the articles in the order glob gave them
newest_first_unsorted(as) == as

\* "Sort by timestamp (newest first)"
newest_first(as) == SortByTime(as)

\* get_recent_articles(port_id, hours, min_sentiment) at time t
get_recent_articles(store, order, port_id, hours, min_sentiment, t) ==
    IF DOMAIN store = {} THEN [exc |-> "none", val |-> << >>]
    ELSE LET found == ScanArticles(store, order, 1, port_id, t - hours * 3600,
                                   min_sentiment, << >>)
         IN  IF found.exc # "none" THEN found
             ELSE [exc |-> "none", val |-> newest_first(found.val)]

\* the orders glob may list the files of a directory in
GlobOrders(store) ==
    { o \in [1..Cardinality(DOMAIN store) -> DOMAIN store] :
        \A i, j \in DOMAIN o : i # j => o[i] # o[j] }

\* news.get_recent_articles(port_id, hours, min_sentiment)
GetRecentArticles(port_id, hours, min_sentiment) ==
    /\ \E order \in GlobOrders(articleStore) :
         LET r == get_recent_articles(articleStore, order, port_id, hours,
                                      min_sentiment, now)
         IN  last' = [NoCall EXCEPT !.op = "get_recent_articles",
                         !.key = [port_id |-> port_id, hours |-> hours,
                                  min_sentiment |-> min_sentiment],
                         !.at = now, !.exc = r.exc, !.ret = r.val]
    /\ UNCHANGED <<now, cacheVars, loopVars, scorerVars>>

\* an article file is replaced by a content _store_article never writes
CorruptArticle(id) ==
    /\ id \in DOMAIN articleStore
    /\ \A i \in DOMAIN articleStore : articleStore[i] \notin CorruptArticles
    /\ \E c \in CorruptArticles : articleStore' = [articleStore EXCEPT ![id] = c]
    /\ last' = [NoCall EXCEPT !.op = "corrupt", !.at = now]
    /\ UNCHANGED <<now, trafficCache, weatherCache, newsCache, alertStore,
                   portHistory, loopVars, scorerVars>>

-----------------------------------------------------------------------------
(* PipelineOrchestrator *)

PortList == <<"LAX", "SHG">>          \* simulator.ports, in order
Routes == {"LAX-SHG"}                 \* simulator.routes
OriginOf(route_id) == "LAX"
DestinationOf(route_id) == "SHG"

\* the pipeline calls an orchestrator method makes, in order
TrafficStep(port_id, force) ==
    [kind |-> "traffic", port_id |-> port_id, region |-> "", limit |-> 0, force |-> force]
WeatherStep(region, force) ==
    [kind |-> "weather", port_id |-> "", region |-> region, limit |-> 0, force |-> force]
NewsStep(port_id, region, limit, force) ==
    [kind |-> "news", port_id |-> port_id, region |-> region, limit |-> limit,
     force |-> force]

\* ingest_all_ports(): ingest_port_traffic(port['id']) for every port
ingest_all_ports == [i \in 1..Len(PortList) |-> TrafficStep(PortList[i], FALSE)]

\* ingest_all_data(force_refresh)
ingest_all_data(force_refresh) ==
    ingest_all_ports
    \o <<WeatherStep("", force_refresh)>>
    \o [i \in 1..Len(WeatherZones) |-> NewsStep("", WeatherZones[i], 10, force_refresh)]

\* get_weather_for_port(port_id): ingest_weather_alerts(port['region'])
get_weather_for_port(port_id) == WeatherStep(RegionOf(port_id), FALSE)

\* ingest_route_data(route_id, force_refresh): no pipeline call, and {}
\* returned, for a route id the simulator does not have
ingest_route_data(route_id, force_refresh) ==
    LET origin_id == OriginOf(route_id)
        dest_id == DestinationOf(route_id)
    IN  IF route_id \notin Routes THEN << >>
        ELSE << TrafficStep(origin_id, force_refresh),
                TrafficStep(dest_id, force_refresh),
                get_weather_for_port(origin_id),
                get_weather_for_port(dest_id),
                NewsStep(origin_id, "", 5, force_refresh),
                NewsStep(dest_id, "", 5, force_refresh) >>

\* the answers the adapters may give to the calls of one pipeline call
OutcomesOf(step, t) ==
    CASE step.kind = "traffic" -> TrafficOutcomes(step.port_id, t)
      [] step.kind = "weather" -> WeatherOutcomes(step.region, t)
      [] step.kind = "news" -> NewsOutcomes(step.port_id, step.region, step.limit, t)

ApplyStep(fs, step, gen, t) ==
    CASE step.kind = "traffic" -> ApplyTraffic(fs, step.port_id, step.force, gen, t)
      [] step.kind = "weather" -> ApplyWeather(fs, step.region, step.force, gen, t)
      [] step.kind = "news" ->
           ApplyNews(fs, step.port_id, step.region, step.limit, step.force, gen, t)

\* the calls of a method one after the other, for every answer the adapters
\* may give; an exception ends the method and leaves what the earlier calls
\* wrote
RECURSIVE RunPlan(_, _, _, _)
RunPlan(fs, plan, t, i) ==
    IF i > Len(plan) THEN { [fs |-> fs, calls |-> << >>, exc |-> "none"] }
    ELSE UNION {
           IF a.call.exc # "none"
           THEN { [fs |-> a.fs, calls |-> <<a.call>>, exc |-> a.call.exc] }
           ELSE { [fs |-> rest.fs, calls |-> <<a.call>> \o rest.calls,
                   exc |-> rest.exc] : rest \in RunPlan(a.fs, plan, t, i + 1) }
           : a \in { ApplyStep(fs, plan[i], g, t) : g \in OutcomesOf(plan[i], t) } }

\* the record of an orchestrator call: ret lists the pipeline calls it made
OrchCall(op, key, force, run, t) ==
    [op |-> op, key |-> key, force |-> force, at |-> t, pre |-> NoFile,
     exc |-> run.exc,
     adapter_called |-> \E i \in 1..Len(run.calls) : run.calls[i].adapter_called,
     ret |-> run.calls]

IngestAllData(force_refresh) ==
    \E run \in RunPlan(Files, ingest_all_data(force_refresh), now, 1) :
            /\ SetFiles(run.fs)
            /\ last' = OrchCall("ingest_all_data", "all", force_refresh, run, now)
            /\ UNCHANGED <<now, loopVars, scorerVars>>

IngestRouteData(route_id, force_refresh) ==
    \E run \in RunPlan(Files, ingest_route_data(route_id, force_refresh), now, 1) :
            /\ SetFiles(run.fs)
            /\ last' = OrchCall("ingest_route_data", route_id, force_refresh, run, now)
            /\ UNCHANGED <<now, loopVars, scorerVars>>

-----------------------------------------------------------------------------
(* continuous_ingestion *)

\* the classes `except Exception` catches
Exceptions == {"SourceUnavailable", "KeyError", "ValueError", "TypeError",
               "UnicodeDecodeError"}

\* a handler that catches KeyError only
Handled_narrow(exc) == exc = "KeyError"

\* except Exception as e
Handled(exc) == exc \in Exceptions

\* asyncio.create_task(continuous_ingestion())
StartContinuousIngestion ==
    /\ loop_pc = "idle"
    /\ loop_pc' = "run"
    /\ UNCHANGED <<now, cacheVars, last, wakeAt, procs, scorerVars>>

\* one pass of the while loop up to its await: ingest_all_data(True), then
\* asyncio.sleep(interval_seconds), or asyncio.sleep(60) in the handler
ContinuousIngestionCycle ==
    /\ loop_pc = "run"
    /\ \E run \in RunPlan(Files, ingest_all_data(TRUE), now, 1) :
            /\ SetFiles(run.fs)
            /\ last' = OrchCall("ingest_all_data", "all", TRUE, run, now)
            /\ IF run.exc = "none"
               THEN loop_pc' = "sleep_interval" /\ wakeAt' = now + IntervalSeconds
               ELSE IF Handled(run.exc)
               THEN loop_pc' = "sleep_backoff" /\ wakeAt' = now + BackoffSeconds
               ELSE loop_pc' = "terminated" /\ wakeAt' = wakeAt
    /\ UNCHANGED <<now, procs, scorerVars>>

\* the pending asyncio.sleep returns
ContinuousIngestionWake ==
    /\ loop_pc \in {"sleep_interval", "sleep_backoff"}
    /\ now >= wakeAt
    /\ loop_pc' = "run"
    /\ UNCHANGED <<now, cacheVars, last, wakeAt, procs, scorerVars>>

-----------------------------------------------------------------------------
(* RiskScorer.  Numbers are exact rationals [num, den] in lowest terms with *)
(* den > 0; the weight arguments are given in units of 0.05.                *)

RECURSIVE GCD(_, _)
GCD(a, b) == IF b = 0 THEN a ELSE GCD(b, a % b)

Abs(n) == IF n < 0 THEN -n ELSE n

\* n / d for d # 0
Frac(n, d) ==
    LET g == GCD(Abs(n), Abs(d))
        sgn == IF d < 0 THEN -1 ELSE 1
    IN  [num |-> sgn * (n \div g), den |-> sgn * (d \div g)]

AddFrac(a, b) == Frac(a.num * b.den + b.num * a.den, a.den * b.den)

WeightNames == <<"weather", "sentiment", "congestion", "historical">>

\* weather_weight=0.35, sentiment_weight=0.30, congestion_weight=0.25,
\* historical_weight=0.10
DefaultWeights ==
    [weather |-> 7, sentiment |-> 6, congestion |-> 5, historical |-> 2]

WeightArgs == [ {"weather", "sentiment", "congestion", "historical"} -> -1..MaxWeight ]

\* a total that leaves the historical weight out
SumOfArgs_short(w) == w.weather + w.sentiment + w.congestion

\* total = weather_weight + sentiment_weight + congestion_weight + historical_weight
SumOfArgs(w) == w.weather + w.sentiment + w.congestion + w.historical

\* RiskScorer.__init__: the object, or the exception the division raises
RiskScorer__init__(w) ==
    LET total == SumOfArgs(w)
    IN  IF total = 0
        THEN [exc |-> "ZeroDivisionError", val |-> << >>]
        ELSE [exc |-> "none",
              val |-> [weather_weight |-> Frac(w.weather, total),
                       sentiment_weight |-> Frac(w.sentiment, total),
                       congestion_weight |-> Frac(w.congestion, total),
                       historical_weight |-> Frac(w.historical, total),
                       high_risk_threshold |-> Frac(7, 10),
                       medium_risk_threshold |-> Frac(4, 10)]]

\* arithmetic of the scores
F(n) == Frac(n, 1)
Zero == F(0)
One == F(1)
MulFrac(a, b) == Frac(a.num * b.num, a.den * b.den)
SubFrac(a, b) == Frac(a.num * b.den - b.num * a.den, a.den * b.den)
LessFrac(a, b) == a.num * b.den < b.num * a.den
GeqFrac(a, b) == ~LessFrac(a, b)
\* min(a, b), max(a, b): the first argument unless the second is smaller, larger
MinFrac(a, b) == IF LessFrac(b, a) THEN b ELSE a
MaxFrac(a, b) == IF LessFrac(a, b) THEN b ELSE a

\* severity_map.get(severity, 0.0)
severity_map(severity) ==
    CASE severity = "none" -> Zero
      [] severity = "light" -> Frac(2, 10)
      [] severity = "moderate" -> Frac(5, 10)
      [] severity = "severe" -> Frac(8, 10)
      [] severity = "extreme" -> One
      [] OTHER -> Zero

\* type_multipliers.get(type, 1.0)
type_multipliers(type) ==
    CASE type = "hurricane" -> Frac(12, 10)
      [] type = "typhoon" -> Frac(12, 10)
      [] type = "storm" -> One
      [] type = "fog" -> Frac(6, 10)
      [] type = "ice" -> Frac(8, 10)
      [] type = "wind" -> Frac(7, 10)
      [] OTHER -> One

compute_weather_risk(weather_data) ==
    LET base_risk == severity_map(Get(weather_data, "severity", "none"))
        multiplier == type_multipliers(Get(weather_data, "type", "storm"))
        duration_hours == Get(weather_data, "duration_hours", Zero)
        duration_factor == MinFrac(One, MulFrac(duration_hours, Frac(1, 48)))
        risk == MulFrac(MulFrac(base_risk, multiplier),
                        AddFrac(Frac(7, 10), MulFrac(Frac(3, 10), duration_factor)))
    IN  MinFrac(One, risk)

\* the sentiment risk without the volume and urgency factors
compute_sentiment_risk_unscaled(sentiment_data) ==
    MulFrac(SubFrac(One, Get(sentiment_data, "sentiment_score", Zero)), Frac(1, 2))

compute_sentiment_risk(sentiment_data) ==
    LET sentiment_score == Get(sentiment_data, "sentiment_score", Zero)
        sentiment_risk == MulFrac(SubFrac(One, sentiment_score), Frac(1, 2))
        article_count == Get(sentiment_data, "article_count", Zero)
        volume_factor == MinFrac(One, MulFrac(article_count, Frac(1, 10)))
        urgency_count == Get(sentiment_data, "urgency_keywords", Zero)
        urgency_factor == MinFrac(One, MulFrac(urgency_count, Frac(1, 5)))
        risk == MulFrac(sentiment_risk,
                        AddFrac(Frac(6, 10),
                                AddFrac(MulFrac(Frac(2, 10), volume_factor),
                                        MulFrac(Frac(2, 10), urgency_factor))))
    IN  MinFrac(One, risk)

compute_congestion_risk(congestion_data) ==
    LET congestion_index == Get(congestion_data, "congestion_index", Zero)
        wait_hours == Get(congestion_data, "wait_time_hours", Zero)
        wait_factor == MinFrac(One, MulFrac(wait_hours, Frac(1, 72)))
        vessel_count == Get(congestion_data, "vessel_count", Zero)
        capacity_factor == MinFrac(One, MulFrac(vessel_count, Frac(1, 50)))
        risk == AddFrac(MulFrac(congestion_index, Frac(5, 10)),
                        AddFrac(MulFrac(wait_factor, Frac(3, 10)),
                                MulFrac(capacity_factor, Frac(2, 10))))
    IN  MinFrac(One, risk)

\* historical_data is None or Dict(d)
compute_historical_risk(route_id, historical_data) ==
    IF historical_data.type = "null" THEN Frac(1, 10)
    ELSE LET disruption_rate == Get(historical_data.v, "disruption_rate", Zero)
             recent_disruptions == Get(historical_data.v, "recent_disruptions", Zero)
             recent_factor == MinFrac(One, MulFrac(recent_disruptions, Frac(1, 3)))
             risk == AddFrac(MulFrac(disruption_rate, Frac(7, 10)),
                             MulFrac(recent_factor, Frac(3, 10)))
         IN  MinFrac(One, risk)

\* the level of a total under the scorer's thresholds, with a strict
\* comparison
risk_level_strict(s, total_risk) ==
    IF LessFrac(s.high_risk_threshold, total_risk) THEN "high"
    ELSE IF LessFrac(s.medium_risk_threshold, total_risk) THEN "medium"
    ELSE "low"

\* compute_route_risk, "Determine risk level"
risk_level(s, total_risk) ==
    IF GeqFrac(total_risk, s.high_risk_threshold) THEN "high"
    ELSE IF GeqFrac(total_risk, s.medium_risk_threshold) THEN "medium"
    ELSE "low"

\* a weighted combination that leaves the historical term out
weighted_combination_short(s, c) ==
    AddFrac(MulFrac(c.weather, s.weather_weight),
            AddFrac(MulFrac(c.sentiment, s.sentiment_weight),
                    MulFrac(c.congestion, s.congestion_weight)))

\* compute_route_risk, "Weighted combination"
weighted_combination(s, c) ==
    AddFrac(AddFrac(AddFrac(MulFrac(c.weather, s.weather_weight),
                            MulFrac(c.sentiment, s.sentiment_weight)),
                    MulFrac(c.congestion, s.congestion_weight)),
            MulFrac(c.historical, s.historical_weight))

\* RiskScorer.compute_route_risk on the scorer s at time t
compute_route_risk(s, route_id, weather_data, sentiment_data, congestion_data, historical_data, t) ==
    LET components ==
            [weather |-> compute_weather_risk(weather_data),
             sentiment |-> compute_sentiment_risk(sentiment_data),
             congestion |-> compute_congestion_risk(congestion_data),
             historical |-> compute_historical_risk(route_id, historical_data)]
        total_risk == weighted_combination(s, components)
    IN  [route_id |-> route_id,
         total_risk |-> total_risk,
         risk_level |-> risk_level(s, total_risk),
         components |-> components,
         weights |-> [weather |-> s.weather_weight,
                      sentiment |-> s.sentiment_weight,
                      congestion |-> s.congestion_weight,
                      historical |-> s.historical_weight],
         timestamp |-> isoformat(t)]

\* a call that halves self.weather_weight
SelfAfterRouteRisk_rescaled(s) ==
    [s EXCEPT !.weather_weight = MulFrac(@, Frac(1, 2))]

\* compute_route_risk assigns no attribute of self
SelfAfterRouteRisk(s) == s

\* the inputs of the scoring calls: in the documented ranges, at their ends,
\* and outside them
WeatherData(severity, type, duration_hours) ==
    [severity |-> severity, type |-> type, duration_hours |-> F(duration_hours)]
SentimentData(sentiment_score, article_count, urgency_keywords) ==
    [sentiment_score |-> F(sentiment_score), article_count |-> F(article_count),
     urgency_keywords |-> F(urgency_keywords)]
CongestionData(congestion_index, wait_time_hours, vessel_count) ==
    [congestion_index |-> congestion_index, wait_time_hours |-> F(wait_time_hours),
     vessel_count |-> F(vessel_count)]
HistoricalData(disruption_rate, recent_disruptions) ==
    Dict([disruption_rate |-> disruption_rate,
          recent_disruptions |-> F(recent_disruptions)])

RouteRiskInputs ==
    LET W1 == WeatherData("extreme", "hurricane", 48)
        W0 == WeatherData("none", "storm", 0)
        S1 == SentimentData(-1, 10, 5)
        S0 == SentimentData(1, 0, 0)
        C1 == CongestionData(One, 72, 50)
        C02 == CongestionData(Zero, 0, 50)
        C0 == CongestionData(Zero, 0, 0)
        H1 == HistoricalData(One, 3)
        H0 == HistoricalData(Zero, 0)
    IN  { <<W1, S1, C1, H1>>,                        \* every component 1
          <<W1, S1, C02, H0>>,                       \* total 0.7
          <<W1, S0, C02, H0>>,                       \* total 0.4
          <<W1, S0, C0, HistoricalData(Frac(7, 10), 0)>>,   \* total 0.399
          <<W1, S0, C02, None>>,                     \* no history
          <<W0, S0, C0, H0>>,                        \* every component 0
          <<WeatherData("moderate", "storm", -240), S0, C0, H0>>,
          <<W0, SentimentData(2, 0, 0), C0, H0>>,
          <<W0, SentimentData(-3, 20, 10), C0, H0>>,
          <<W0, S0, CongestionData(F(-1), -72, -50), H0>>,
          <<W0, S0, CongestionData(F(2), 144, 100), H0>>,
          <<W0, S0, C0, HistoricalData(F(-1), 0)>> }

\* inputs inside the documented ranges: at the ends, in the middle, and
\* beyond the points where the factors are capped
InRangeInputs ==
    { <<WeatherData("extreme", "hurricane", 48), SentimentData(-1, 10, 5),
        CongestionData(Zero, 0, 0), None>>,
      <<WeatherData("moderate", "fog", 24), SentimentData(0, 5, 1),
        CongestionData(Frac(1, 2), 36, 25), HistoricalData(Frac(1, 2), 1)>>,
      <<WeatherData("severe", "typhoon", 12), SentimentData(1, 3, 0),
        CongestionData(Frac(3, 10), 6, 10), HistoricalData(Frac(1, 10), 2)>>,
      <<WeatherData("light", "wind", 96), SentimentData(-1, 20, 10),
        CongestionData(One, 144, 100), HistoricalData(One, 6)>>,
      <<WeatherData("none", "ice", 0), [sentiment_score |-> Frac(-1, 2),
                                        article_count |-> F(2), urgency_keywords |-> F(3)],
        CongestionData(One, 72, 50), HistoricalData(Zero, 0)>>,
      <<WeatherData("extreme", "storm", 0), SentimentData(0, 0, 0),
        CongestionData(Zero, 72, 0), HistoricalData(Zero, 3)>> }

\* risk_assessment = risk_scorer.compute_route_risk(...)
ComputeRouteRisk(route_id, weather_data, sentiment_data, congestion_data, historical_data) ==
    /\ scorer # << >>
    /\ LET key == <<route_id, weather_data, sentiment_data, congestion_data,
                    historical_data>>
           ret == compute_route_risk(scorer, route_id, weather_data, sentiment_data,
                                     congestion_data, historical_data, now)
       IN  /\ last' = [NoCall EXCEPT !.op = "compute_route_risk", !.key = key,
                                     !.at = now, !.ret = ret]
           /\ probe' = IF probe = << >> THEN [key |-> key, ret |-> ret] ELSE probe
           /\ scorer' = SelfAfterRouteRisk(scorer)
    /\ UNCHANGED <<now, cacheVars, loopVars, weights, routes>>

\* MLRiskModel.predict_risk_level
predict_risk_level(risk_score) ==
    IF GeqFrac(risk_score, Frac(7, 10)) THEN "high"
    ELSE IF GeqFrac(risk_score, Frac(4, 10)) THEN "medium"
    ELSE "low"

\* scores at, just below and away from the two thresholds
ScoreInputs ==
    { Zero, Frac(39999, 100000), Frac(4, 10), Frac(69999, 100000), Frac(7, 10), One }

\* level = ml_model.predict_risk_level(risk_score)
PredictRiskLevel(risk_score) ==
    /\ last' = [NoCall EXCEPT !.op = "predict_risk_level", !.key = risk_score,
                              !.at = now, !.ret = predict_risk_level(risk_score)]
    /\ UNCHANGED <<now, cacheVars, loopVars, scorerVars>>

\* risk_scorer = RiskScorer(...), once: the module has no scorer yet
NewRiskScorer(w) ==
    LET r == RiskScorer__init__(w)
    IN  /\ scorer = << >>
        /\ weights' = w
        /\ scorer' = IF r.exc = "none" THEN r.val ELSE scorer
        /\ last' = [NoCall EXCEPT !.op = "RiskScorer", !.at = now, !.exc = r.exc]
        /\ UNCHANGED <<now, cacheVars, loopVars, appVars>>

-----------------------------------------------------------------------------
(* SupplyChainOntology.  self.routes is a dict: its values are kept in the  *)
(* order of first insertion, so it is a sequence of Route records with      *)
(* distinct route ids.                                                      *)

\* Route(route_id=..., ...): risk_score and risk_level take their defaults
Route(route_id) == [route_id |-> route_id, risk_score |-> Zero, risk_level |-> "low"]

\* route_id in self.routes
HasRoute(rs, route_id) == \E i \in 1..Len(rs) : rs[i].route_id = route_id

\* self.routes[route.route_id] = route
add_route(rs, route) ==
    IF HasRoute(rs, route.route_id)
    THEN [i \in 1..Len(rs) |-> IF rs[i].route_id = route.route_id THEN route ELSE rs[i]]
    ELSE Append(rs, route)

\* an update that writes the score and leaves the level as it was
update_route_risk_score_only(rs, route_id, risk_score, level) ==
    [i \in 1..Len(rs) |->
        IF rs[i].route_id = route_id THEN [rs[i] EXCEPT !.risk_score = risk_score]
        ELSE rs[i]]

\* update_route_risk(route_id, risk_score, risk_level)
update_route_risk(rs, route_id, risk_score, level) ==
    IF HasRoute(rs, route_id)
    THEN [i \in 1..Len(rs) |->
            IF rs[i].route_id = route_id
            THEN [rs[i] EXCEPT !.risk_score = risk_score, !.risk_level = level]
            ELSE rs[i]]
    ELSE rs

\* sorted(..., key=risk_score, reverse=True) is stable: an element goes
\* behind every element whose key is not smaller
RECURSIVE InsertByRisk(_, _)
InsertByRisk(sorted, r) ==
    IF sorted = << >> THEN <<r>>
    ELSE IF LessFrac(Head(sorted).risk_score, r.risk_score) THEN <<r>> \o sorted
    ELSE <<Head(sorted)>> \o InsertByRisk(Tail(sorted), r)

RECURSIVE SortByRisk(_)
SortByRisk(rs) ==
    IF rs = << >> THEN << >>
    ELSE InsertByRisk(SortByRisk(SubSeq(rs, 1, Len(rs) - 1)), rs[Len(rs)])

\* the routes in the order of the registry, not sorted
sorted_routes_unsorted(rs) == rs

\* sorted_routes = sorted(all_routes, key=lambda r: r.risk_score, reverse=True)
sorted_routes(rs) == SortByRisk(rs)

\* seq[:limit]
SliceTo(seq, limit) ==
    IF limit >= 0
    THEN SubSeq(seq, 1, IF limit < Len(seq) THEN limit ELSE Len(seq))
    ELSE SubSeq(seq, 1, IF Len(seq) + limit > 0 THEN Len(seq) + limit ELSE 0)

\* SupplyChainOntology.get_top_risk_routes(limit)
get_top_risk_routes(rs, limit) == SliceTo(sorted_routes(rs), limit)

\* initialize_ontology(): a Route for every route of the simulator
RouteList == <<"LAX-SHG">>

RECURSIVE AddRoutes(_, _, _)
AddRoutes(rs, ids, i) ==
    IF i > Len(ids) THEN rs ELSE AddRoutes(add_route(rs, Route(ids[i])), ids, i + 1)

initialize_ontology == AddRoutes(<< >>, RouteList, 1)

\* route ids and risk values of the registry calls
RegistryRouteIds == {"LAX-SHG", "LAX-NYC", "SHG-SGP"}
RegistryRisks ==
    { <<Frac(2, 10), "low">>, <<Frac(5, 10), "medium">>, <<Frac(8, 10), "high">> }
Limits == {-1, 0, 1, 2, 3, 10}

\* ontology.add_route(Route(route_id, ...))
AddRoute(route_id) ==
    /\ routes' = add_route(routes, Route(route_id))
    /\ last' = [NoCall EXCEPT !.op = "add_route", !.key = route_id, !.at = now]
    /\ UNCHANGED <<now, cacheVars, loopVars, weights, scorer, probe>>

\* ontology.update_route_risk(route_id, risk_score, risk_level)
UpdateRouteRisk(route_id, risk_score, level) ==
    /\ routes' = update_route_risk(routes, route_id, risk_score, level)
    /\ last' = [NoCall EXCEPT !.op = "update_route_risk", !.key = route_id, !.at = now]
    /\ UNCHANGED <<now, cacheVars, loopVars, weights, scorer, probe>>

\* the routes after get_top_risk_routes: it assigns nothing
RoutesAfterTopRisk(rs) == rs

\* ontology.get_top_risk_routes(limit); key holds the registry the call saw
GetTopRiskRoutes(limit) ==
    /\ last' = [NoCall EXCEPT !.op = "get_top_risk_routes",
                              !.key = [limit |-> limit, routes |-> routes],
                              !.at = now,
                              !.ret = get_top_risk_routes(routes, limit)]
    /\ routes' = RoutesAfterTopRisk(routes)
    /\ UNCHANGED <<now, cacheVars, loopVars, weights, scorer, probe>>

-----------------------------------------------------------------------------
(* The request handlers of main.py that assess a route.  route_data is what *)
(* pipeline_orchestrator.ingest_route_data returned for the route, and      *)
(* combined_sentiment what sentiment_analyzer.analyze_articles returned for *)
(* the articles of both ports.                                              *)

\* _weather_severity_value: severity_map.get(severity, 0)
_weather_severity_value(severity) ==
    CASE severity = "none" -> 0
      [] severity = "light" -> 1
      [] severity = "moderate" -> 2
      [] severity = "severe" -> 3
      [] severity = "extreme" -> 4
      [] OTHER -> 0

\* CongestionAnalyzer.compute_congestion_index without historical_avg
compute_congestion_index(current_vessels, capacity, wait_time_hours) ==
    LET capacity_util == IF capacity > 0
                         THEN MinFrac(One, Frac(current_vessels, capacity))
                         ELSE Zero
        wait_factor == MinFrac(One, Frac(wait_time_hours, 72))
        historical_factor == Frac(5, 10)
        congestion_index ==
            AddFrac(AddFrac(MulFrac(capacity_util, Frac(4, 10)),
                            MulFrac(wait_factor, Frac(4, 10))),
                    MulFrac(historical_factor, Frac(2, 10)))
    IN  MinFrac(One, MaxFrac(Zero, congestion_index))

\* the congestion index of a port's traffic record
CongestionOf(traffic) ==
    compute_congestion_index(traffic.vessel_count, traffic.capacity,
                             traffic.wait_time_hours)

MaxInt(a, b) == IF a >= b THEN a ELSE b

\* get_routes, "Use worst congestion (bottleneck)"
avg_congestion_data(origin_traffic, dest_traffic) ==
    [congestion_index |-> MaxFrac(CongestionOf(origin_traffic), CongestionOf(dest_traffic)),
     vessel_count |-> F((origin_traffic.vessel_count + dest_traffic.vessel_count) \div 2),
     wait_time_hours |-> F(MaxInt(origin_traffic.wait_time_hours,
                                  dest_traffic.wait_time_hours))]

\* get_route_details, max_congestion_data
max_congestion_data(origin_traffic, dest_traffic) ==
    [congestion_index |-> MaxFrac(CongestionOf(origin_traffic), CongestionOf(dest_traffic)),
     vessel_count |-> F(MaxInt(origin_traffic.vessel_count, dest_traffic.vessel_count)),
     wait_time_hours |-> F(MaxInt(origin_traffic.wait_time_hours,
                                  dest_traffic.wait_time_hours))]

\* the destination's record unless the origin's is strictly more severe
worst_weather_strict(origin_weather, dest_weather) ==
    IF _weather_severity_value(origin_weather.severity)
         > _weather_severity_value(dest_weather.severity)
    THEN origin_weather ELSE dest_weather

\* get_routes, "Use worst weather (bottleneck)"
worst_weather(origin_weather, dest_weather) ==
    IF _weather_severity_value(origin_weather.severity)
         >= _weather_severity_value(dest_weather.severity)
    THEN origin_weather ELSE dest_weather

\* get_route_details, worst_weather
worst_weather_details(origin_weather, dest_weather) ==
    IF _weather_severity_value(origin_weather.severity)
         >= _weather_severity_value(dest_weather.severity)
    THEN origin_weather ELSE dest_weather

\* the records of a route's two ports
Traffic(vessel_count, capacity, wait_time_hours) ==
    [vessel_count |-> vessel_count, capacity |-> capacity,
     wait_time_hours |-> wait_time_hours]
Alert(port_id, severity) ==
    [weather_zone |-> RegionOf(port_id), severity |-> severity, type |-> "storm",
     duration_hours |-> F(12)]
RouteData(route_id, origin_traffic, dest_traffic, origin_severity, dest_severity) ==
    [route_id |-> route_id,
     origin_port |-> [id |-> OriginOf(route_id), traffic |-> origin_traffic,
                      weather |-> Alert(OriginOf(route_id), origin_severity)],
     destination_port |-> [id |-> DestinationOf(route_id), traffic |-> dest_traffic,
                           weather |-> Alert(DestinationOf(route_id), dest_severity)]]

AllSeverities == {"none", "light", "moderate", "severe", "extreme"}

\* every pair of severities, and vessel counts and wait times that differ
\* either way between the two ports
RouteDataInputs ==
    { RouteData("LAX-SHG", Traffic(40, 100, 10), Traffic(50, 100, 20), so, sd) :
        so \in AllSeverities, sd \in AllSeverities }
    \cup { RouteData("LAX-SHG", p[1], p[2], "moderate", "extreme") :
             p \in { <<Traffic(50, 100, 20), Traffic(40, 100, 10)>>,
                     <<Traffic(41, 100, 30), Traffic(40, 100, 10)>>,
                     <<Traffic(30, 100, 80), Traffic(70, 100, 0)>>,
                     <<Traffic(45, 100, 12), Traffic(45, 100, 12)>> } }

SentimentSummaries == { SentimentData(0, 2, 0) }

\* DataSimulator.generate_route_data(route_id): data generated for the route
\* of that id, and for routes[0] when no route has it
generate_route_data(route_id) ==
    LET route == IF route_id \in Routes THEN route_id ELSE RouteList[1]
    IN  { rd \in RouteDataInputs : rd.route_id = route }

\* ids that name no port and no route
UnknownPortId == "XXX"
UnknownRouteId == "XXX-YYY"

\* what a handler hands to compute_route_risk, and the assessment
Scored(route_id, weather_data, congestion_data, risk_assessment) ==
    [route_id |-> route_id, weather_data |-> weather_data,
     congestion_data |-> congestion_data, risk_assessment |-> risk_assessment]

\* GET /api/routes for the route of route_data
GetRoutes(route_data, combined_sentiment) ==
    /\ scorer # << >>
    /\ LET route_id == route_data.route_id
           origin_traffic == route_data.origin_port.traffic
           dest_traffic == route_data.destination_port.traffic
           congestion_data == avg_congestion_data(origin_traffic, dest_traffic)
           weather_data == worst_weather(route_data.origin_port.weather,
                                         route_data.destination_port.weather)
           risk_assessment ==
               compute_route_risk(scorer, route_id, weather_data, combined_sentiment,
                                  congestion_data, None, now)
       IN  /\ routes' = update_route_risk(routes, route_id, risk_assessment.total_risk,
                                          risk_assessment.risk_level)
           /\ last' = [NoCall EXCEPT !.op = "get_routes", !.key = route_data, !.at = now,
                          !.ret = Scored(route_id, weather_data, congestion_data,
                                         risk_assessment)]
           /\ scorer' = SelfAfterRouteRisk(scorer)
    /\ UNCHANGED <<now, cacheVars, loopVars, weights, probe>>

\* SentimentAnalyzer.analyze_articles(articles): the neutral summary when
\* there is no article; the analysis of the texts is not modelled, a list of
\* articles gets a summary of score 0
analyze_articles(articles) ==
    IF articles = << >> THEN SentimentData(0, 0, 0)
    ELSE SentimentData(0, Len(articles), 0)

\* get_routes indexes these keys of a port's records without a default
MissesKey(route_data) ==
    \E port \in {route_data.origin_port, route_data.destination_port} :
        \/ {"vessel_count", "capacity", "wait_time_hours"} \ DOMAIN port.traffic # {}
        \/ "severity" \notin DOMAIN port.weather

\* one result of get_routes
RouteResult(route_id, risk_assessment, weather_data, sentiment_data, congestion_data) ==
    [route_id |-> route_id, risk_score |-> risk_assessment.total_risk,
     risk_level |-> risk_assessment.risk_level, weather |-> weather_data,
     sentiment |-> sentiment_data, congestion |-> congestion_data]

\* get_routes, the loop over routes_data from its k-th element on; a
\* KeyError ends the handler, the registry updates made before it stay
RECURSIVE ScoreRoutes(_, _, _, _, _, _)
ScoreRoutes(s, rs, routes_data, k, results, t) ==
    IF k > Len(routes_data)
    THEN [exc |-> "none", results |-> sorted_routes(results), routes |-> rs]
    ELSE LET route_data == routes_data[k]
         IN  IF MissesKey(route_data)
             THEN [exc |-> "KeyError", results |-> << >>, routes |-> rs]
             ELSE LET route_id == route_data.route_id
                      combined_sentiment ==
                          analyze_articles(route_data.origin_port.news
                                           \o route_data.destination_port.news)
                      congestion_data ==
                          avg_congestion_data(route_data.origin_port.traffic,
                                              route_data.destination_port.traffic)
                      weather_data == worst_weather(route_data.origin_port.weather,
                                                    route_data.destination_port.weather)
                      risk_assessment ==
                          compute_route_risk(s, route_id, weather_data, combined_sentiment,
                                             congestion_data, None, t)
                 IN  ScoreRoutes(s,
                                 update_route_risk(rs, route_id, risk_assessment.total_risk,
                                                   risk_assessment.risk_level),
                                 routes_data, k + 1,
                                 Append(results,
                                        RouteResult(route_id, risk_assessment, weather_data,
                                                    combined_sentiment, congestion_data)),
                                 t)

\* route_data as ingest_route_data returns it: 'weather': weather or {}
PortData(traffic, weather, news) == [traffic |-> traffic, weather |-> weather, news |-> news]
RouteOf(route_id, origin_port, destination_port) ==
    [route_id |-> route_id, origin_port |-> origin_port,
     destination_port |-> destination_port]

\* batches of two routes: complete data, no news, no weather record for an
\* endpoint, an empty traffic record
FullPort(vessel_count, severity) ==
    PortData(Traffic(vessel_count, 100, 10), Alert("LAX", severity), <<"article">>)
RouteBatches ==
    LET full(id, sev) == RouteOf(id, FullPort(40, sev), FullPort(50, "light"))
        no_news(id) == RouteOf(id, PortData(Traffic(40, 100, 10), Alert("LAX", "severe"), << >>),
                                   PortData(Traffic(50, 100, 10), Alert("SHG", "light"), << >>))
        no_weather(id) == RouteOf(id, PortData(Traffic(40, 100, 10), EmptyDict, <<"article">>),
                                      FullPort(50, "light"))
        no_traffic(id) == RouteOf(id, FullPort(40, "light"),
                                      PortData(EmptyDict, Alert("SHG", "light"), <<"article">>))
    IN  { <<full("LAX-SHG", "moderate"), full("LAX-NYC", "extreme")>>,
          <<full("LAX-SHG", "extreme"), full("LAX-NYC", "light")>>,
          <<no_news("LAX-SHG"), full("LAX-NYC", "moderate")>>,
          <<no_weather("LAX-SHG"), full("LAX-NYC", "moderate")>>,
          <<full("LAX-SHG", "severe"), no_weather("LAX-NYC")>>,
          <<full("LAX-SHG", "severe"), no_traffic("LAX-NYC")>> }

\* GET /api/routes on the route data routes_data
GetRoutesPass(routes_data) ==
    /\ scorer # << >>
    /\ LET r == ScoreRoutes(scorer, routes, routes_data, 1, << >>, now)
       IN  /\ routes' = r.routes
           /\ last' = [NoCall EXCEPT !.op = "get_routes_pass", !.key = routes_data,
                          !.at = now, !.exc = r.exc, !.ret = r.results]
           /\ scorer' = SelfAfterRouteRisk(scorer)
    /\ UNCHANGED <<now, cacheVars, loopVars, weights, probe>>

\* GET /api/route/{route_id}: route_data is what ingest_route_data returned
\* or, when that is empty, what generate_route_data returned
GetRouteDetails(route_id, route_data, combined_sentiment) ==
    /\ scorer # << >>
    /\ LET origin_traffic == route_data.origin_port.traffic
           dest_traffic == route_data.destination_port.traffic
           weather_data == worst_weather_details(route_data.origin_port.weather,
                                                 route_data.destination_port.weather)
           congestion_data == max_congestion_data(origin_traffic, dest_traffic)
           risk_assessment ==
               compute_route_risk(scorer, route_id, weather_data, combined_sentiment,
                                  congestion_data, None, now)
       IN  /\ last' = [NoCall EXCEPT !.op = "get_route_details", !.key = route_data,
                          !.at = now,
                          !.ret = Scored(route_id, weather_data, congestion_data,
                                         risk_assessment)]
           /\ scorer' = SelfAfterRouteRisk(scorer)
    /\ UNCHANGED <<now, cacheVars, loopVars, weights, probe, routes>>

-----------------------------------------------------------------------------
(* The cascade forecasters.  route_risks is a list of assessments, the      *)
(* graph is None or a dict from a route id to the list of its dependents.   *)

\* predict_cascading_delays, base delay of an assessment
base_delay_hours(route_risk) ==
    IF route_risk.risk_level = "high"
    THEN AddFrac(F(24), MulFrac(SubFrac(route_risk.total_risk, Frac(7, 10)), F(100)))
    ELSE IF route_risk.risk_level = "medium"
    THEN AddFrac(F(6), MulFrac(SubFrac(route_risk.total_risk, Frac(4, 10)), F(30)))
    ELSE Zero

\* 30% of the route's base delay whether or not a graph is given
cascading_effects_ungated(route_risk, base, network_graph) ==
    MulFrac(base, Frac(3, 10))

\* predict_cascading_delays, "Cascading effects": base_delay_hours * 0.3 is
\* added once for every dependent route
cascading_effects(route_risk, base, network_graph) ==
    IF truthy(network_graph) /\ route_risk.route_id \in DOMAIN network_graph.v
    THEN MulFrac(F(Len(network_graph.v[route_risk.route_id])),
                 MulFrac(base, Frac(3, 10)))
    ELSE Zero

\* RiskScorer.predict_cascading_delays(route_risks, network_graph)
predict_cascading_delays(route_risks, network_graph) ==
    [i \in 1..Len(route_risks) |->
        LET route_risk == route_risks[i]
            base == base_delay_hours(route_risk)
            cascading_delay == cascading_effects(route_risk, base, network_graph)
        IN  [route_id |-> route_risk.route_id,
             predicted_delay_hours |-> AddFrac(base, cascading_delay),
             base_delay |-> base,
             cascading_delay |-> cascading_delay,
             risk_level |-> route_risk.risk_level]]

\* the medium band's formula for every level
base_delay_unbanded(route_risk) ==
    AddFrac(F(6), MulFrac(SubFrac(Get(route_risk, "total_risk", Zero), Frac(4, 10)), F(40)))

\* forecast_delay_cascade, base delay of an assessment
base_delay(route_risk) ==
    LET risk_score == Get(route_risk, "total_risk", Zero)
        level == Get(route_risk, "risk_level", "low")
    IN  IF level = "high"
        THEN AddFrac(F(24), MulFrac(SubFrac(risk_score, Frac(7, 10)), F(120)))
        ELSE IF level = "medium"
        THEN AddFrac(F(6), MulFrac(SubFrac(risk_score, Frac(4, 10)), F(40)))
        ELSE MulFrac(risk_score, F(10))

\* next((r for r in route_risks if r.get('route_id') == dep_route), None)
dep_risk(route_risks, dep_route) ==
    IF \E i \in 1..Len(route_risks) : Get(route_risks[i], "route_id", "") = dep_route
    THEN Dict(route_risks[CHOOSE i \in 1..Len(route_risks) :
                 /\ Get(route_risks[i], "route_id", "") = dep_route
                 /\ \A j \in 1..(i - 1) : Get(route_risks[j], "route_id", "") # dep_route])
    ELSE None

\* forecast_delay_cascade, the loop over network_dependencies[route_id]:
\* dep_risk.get('predicted_delay_hours', 0) * 0.3 for every dependent found
RECURSIVE cascade_over(_, _, _)
cascade_over(route_risks, deps, k) ==
    IF k > Len(deps) THEN Zero
    ELSE LET found == dep_risk(route_risks, deps[k])
             dep_base == IF truthy(found)
                         THEN Get(found.v, "predicted_delay_hours", Zero)
                         ELSE Zero
         IN  AddFrac(MulFrac(dep_base, Frac(3, 10)),
                     cascade_over(route_risks, deps, k + 1))

\* TimeSeriesForecaster.forecast_delay_cascade(route_risks, network_dependencies)
forecast_delay_cascade(route_risks, network_dependencies) ==
    [i \in 1..Len(route_risks) |->
        LET route_risk == route_risks[i]
            risk_score == Get(route_risk, "total_risk", Zero)
            base == base_delay(route_risk)
            route_id == Get(route_risk, "route_id", "")
            cascading_delay ==
                IF truthy(network_dependencies)
                     /\ route_id \in DOMAIN network_dependencies.v
                THEN cascade_over(route_risks, network_dependencies.v[route_id], 1)
                ELSE Zero
        IN  [route_id |-> route_id,
             predicted_delay_hours |-> AddFrac(base, cascading_delay),
             base_delay |-> base,
             cascading_delay |-> cascading_delay,
             risk_level |-> Get(route_risk, "risk_level", "low"),
             confidence |-> IF LessFrac(Frac(5, 10), risk_score)
                            THEN Frac(7, 10) ELSE Frac(5, 10)]]

\* assessments as compute_route_risk levels them, and the lists and graphs
\* given to the forecasters
Assessment(route_id, total_risk) ==
    [route_id |-> route_id, total_risk |-> total_risk,
     risk_level |-> predict_risk_level(total_risk)]

RouteRiskLists ==
    LET a == Assessment("a", Frac(8, 10))
        b == Assessment("b", Frac(5, 10))
        c == Assessment("c", Frac(2, 10))
    IN  { << >>, <<a>>, <<c>>, <<a, b>>, <<b, a>>, <<a, b, c>>, <<c, b, a>>,
          <<Assessment("a", One), Assessment("b", Frac(7, 10))>>,
          <<Assessment("a", Frac(39, 100)), Assessment("b", Frac(4, 10)),
            Assessment("c", Frac(69, 100))>>,
          <<Assessment("a", Frac(7, 10)), Assessment("b", Frac(69, 100)),
            Assessment("c", Zero)>> }

DependencyGraphs ==
    { None,
      Dict(EmptyDict),
      Dict([r \in {"a"} |-> <<"b">>]),
      Dict([r \in {"a"} |-> <<"b", "c">>]),
      Dict([r \in {"a", "b"} |-> IF r = "a" THEN <<"b">> ELSE <<"a">>]),
      Dict([r \in {"c"} |-> <<"a", "b">>]),
      Dict([r \in {"a"} |-> << >>]),
      Dict([r \in {"b"} |-> <<"z">>]) }

\* risk_scorer.predict_cascading_delays(route_risks, network_graph)
PredictCascadingDelays(route_risks, network_graph) ==
    /\ scorer # << >>
    /\ last' = [NoCall EXCEPT !.op = "predict_cascading_delays",
                              !.key = [route_risks |-> route_risks,
                                       graph |-> network_graph],
                              !.at = now,
                              !.ret = predict_cascading_delays(route_risks, network_graph)]
    /\ UNCHANGED <<now, cacheVars, loopVars, scorerVars>>

\* forecaster.forecast_delay_cascade(route_risks, network_dependencies)
ForecastDelayCascade(route_risks, network_dependencies) ==
    /\ last' = [NoCall EXCEPT !.op = "forecast_delay_cascade",
                              !.key = [route_risks |-> route_risks,
                                       graph |-> network_dependencies],
                              !.at = now,
                              !.ret = forecast_delay_cascade(route_risks,
                                                             network_dependencies)]
    /\ UNCHANGED <<now, cacheVars, loopVars, scorerVars>>

-----------------------------------------------------------------------------
(* The clock *)

Tick(step, limit) ==
    /\ now + step <= limit
    /\ now' = now + step
    /\ UNCHANGED <<cacheVars, last, loopVars, scorerVars>>

-----------------------------------------------------------------------------
(* Specifications *)

Init ==
    /\ now = 0
    /\ trafficCache = << >>
    /\ weatherCache = << >>
    /\ newsCache = << >>
    /\ alertStore = << >>
    /\ articleStore = << >>
    /\ portHistory = << >>
    /\ last = NoCall
    /\ loop_pc = "idle"
    /\ wakeAt = 0
    /\ procs = [p \in ProcIds |-> IdleProc]
    /\ weights = << >>
    /\ scorer = << >>
    /\ probe = << >>
    /\ routes = initialize_ontology

\* The three pipelines share no state: each owns its cache directory.  A
\* behaviour of the pipeline specification exercises one of them.
Untouched(caches) == \A i \in 1..Len(caches) : caches[i] = << >>

PipelineNext ==
    \/ Tick(CoarseStep, MaxTicks * CoarseStep)
    \/ /\ Untouched(<<weatherCache, newsCache>>)
       /\ \E f \in BOOLEAN : IngestPortTraffic("LAX", f)
    \/ /\ Untouched(<<trafficCache, newsCache>>)
       /\ \E f \in BOOLEAN : IngestWeatherAlerts("Asia", f)
    \/ /\ Untouched(<<trafficCache, weatherCache>>)
       /\ \E f \in BOOLEAN : IngestNewsArticles("LAX", "", 5, f)

Spec == Init /\ [][PipelineNext]_vars

\* The pipeline specification with faults of the cache directory: the file
\* of the traffic cache is replaced by a content _save_cache never writes.
SampleTraffic == [port_id |-> "LAX", vessel_count |-> 40, timestamp |-> isoformat(0)]

CorruptContents(t) ==
    { GarbageFile,                                                  \* not JSON
      NotUtf8File,                                                  \* not text
      JsonFile(Dict(EmptyDict)),                                    \* {}
      JsonFile(Dict([data |-> SampleTraffic])),                     \* no timestamp
      JsonFile(Dict([timestamp |-> <<0, 99, 0>>,
                     data |-> SampleTraffic])),                     \* malformed timestamp
      JsonFile(Dict([timestamp |-> isoformat(t)])),                 \* no data
      JsonFile(List(<<"x">>)) }                                     \* a list

CorruptEntry(port_id) ==
    \E c \in CorruptContents(now) :
        /\ trafficCache' = WriteFile(trafficCache, port_id, c)
        /\ last' = [NoCall EXCEPT !.op = "corrupt", !.at = now]
        /\ UNCHANGED <<now, weatherCache, newsCache, alertStore, articleStore,
                       portHistory, loopVars, scorerVars>>

CorruptNext ==
    \/ Tick(CoarseStep, MaxTicks * CoarseStep)
    \/ \E f \in BOOLEAN : IngestPortTraffic("LAX", f)
    \/ CorruptEntry("LAX")

CorruptSpec == Init /\ [][CorruptNext]_vars

\* The orchestrator called from the request path.  A behaviour exercises one
\* of its methods, to keep the state space a sum rather than a product.
OrchNext ==
    \/ Tick(CoarseStep, MaxOrchTicks * CoarseStep)
    \/ /\ last.op \in {"none", "ingest_all_data"}
       /\ \E f \in BOOLEAN : IngestAllData(f)
    \/ /\ last.op \in {"none", "ingest_route_data"}
       /\ \E r \in Routes, f \in BOOLEAN : IngestRouteData(r, f)

OrchSpec == Init /\ [][OrchNext]_vars

\* The background loop
LoopNext ==
    \/ Tick(FineStep, MaxLoopTicks * FineStep)
    \/ StartContinuousIngestion
    \/ ContinuousIngestionCycle
    \/ ContinuousIngestionWake

LoopSpec == Init /\ [][LoopNext]_vars

\* the clock advances and the event loop runs a coroutine that is ready.
\* The last conjunct is WF_vars(ContinuousIngestionCycle) with the action's
\* enabling condition, loop_pc = "run", written out.
LoopLiveSpec ==
    /\ LoopSpec
    /\ WF_vars(Tick(FineStep, MaxLoopTicks * FineStep))
    /\ WF_vars(ContinuousIngestionWake)
    /\ \/ []<>(loop_pc # "run")
       \/ []<><<ContinuousIngestionCycle>>_vars

\* Construction of the scorer, from the default arguments and from every
\* argument vector of the bound
ScorerNext ==
    \/ NewRiskScorer(DefaultWeights)
    \/ \E w \in WeightArgs : NewRiskScorer(w)

ScorerSpec == Init /\ [][ScorerNext]_vars

\* Scoring on the scorer main.py constructs
RiskNext ==
    \/ Tick(CoarseStep, MaxRiskTicks * CoarseStep)
    \/ NewRiskScorer(DefaultWeights)
    \/ \E i \in RouteRiskInputs :
            ComputeRouteRisk("LAX-SHG", i[1], i[2], i[3], i[4])
    \/ \E x \in ScoreInputs : PredictRiskLevel(x)

RiskSpec == Init /\ [][RiskNext]_vars

\* The route registry
RegistryNext ==
    \/ \E r \in RegistryRouteIds : AddRoute(r)
    \/ \E r \in RegistryRouteIds, x \in RegistryRisks : UpdateRouteRisk(r, x[1], x[2])
    \/ \E n \in Limits : GetTopRiskRoutes(n)

RegistrySpec == Init /\ [][RegistryNext]_vars

\* The handlers that assess a route
MergeNext ==
    \/ Tick(CoarseStep, MaxRiskTicks * CoarseStep)
    \/ NewRiskScorer(DefaultWeights)
    \/ \E rd \in RouteDataInputs, s \in SentimentSummaries : GetRoutes(rd, s)
    \/ \E rd \in RouteDataInputs, s \in SentimentSummaries :
            GetRouteDetails(rd.route_id, rd, s)

MergeSpec == Init /\ [][MergeNext]_vars

\* The cascade forecasters
CascadeNext ==
    \/ Tick(CoarseStep, MaxRiskTicks * CoarseStep)
    \/ NewRiskScorer(DefaultWeights)
    \/ \E rr \in RouteRiskLists, g \in DependencyGraphs : PredictCascadingDelays(rr, g)
    \/ \E rr \in RouteRiskLists, g \in DependencyGraphs : ForecastDelayCascade(rr, g)

CascadeSpec == Init /\ [][CascadeNext]_vars

\* Requests that name a port or a route the simulator and the registry do
\* not have
UnknownNext ==
    \/ Tick(CoarseStep, MaxTicks * CoarseStep)
    \/ NewRiskScorer(DefaultWeights)
    \/ \E f \in BOOLEAN : IngestPortTraffic(UnknownPortId, f)
    \/ \E f \in BOOLEAN : IngestRouteData(UnknownRouteId, f)
    \/ \E rd \in generate_route_data(UnknownRouteId), s \in SentimentSummaries :
            GetRouteDetails(UnknownRouteId, rd, s)
    \/ \E x \in RegistryRisks : UpdateRouteRisk(UnknownRouteId, x[1], x[2])

UnknownSpec == Init /\ [][UnknownNext]_vars

\* The alert query of the weather pipeline
AlertNext ==
    \/ Tick(FineStep, MaxLoopTicks * FineStep)
    \/ \E th \in AllSeverities : GetActiveAlerts(th)

AlertSpec == Init /\ [][AlertNext]_vars

\* The article store of the news pipeline.  A behaviour keeps the store
\* intact or damages one file of it.
RecentQueries ==
    { <<"", 24, None>>, <<"LAX", 24, None>>, <<"", 1, None>>, <<"", 24, Num(0)>>,
      <<"SHG", 1, Num(0)>> }

NewsStoreNext ==
    \/ Tick(HourStep, MaxNewsTicks * HourStep)
    \/ \E p \in Ports, f \in BOOLEAN : IngestNewsOfPort(p, f)
    \/ \E q \in RecentQueries : GetRecentArticles(q[1], q[2], q[3])

NewsStoreSpec == Init /\ [][NewsStoreNext]_vars

NewsFaultNext ==
    \/ NewsStoreNext
    \/ \E id \in WideArticleIds : CorruptArticle(id)

NewsFaultSpec == Init /\ [][NewsFaultNext]_vars

\* The history log of a port next to the ingests of its traffic.
HistoryNext ==
    \/ Tick(HistoryStep, MaxHistoryTicks * HistoryStep)
    \/ \E f \in BOOLEAN : IngestPortTraffic("LAX", f)
    \/ UpdatePortHistory("LAX")

HistorySpec == Init /\ [][HistoryNext]_vars

\* The scoring pass over batches of route data, some of them partial.
PassNext ==
    \/ Tick(CoarseStep, MaxRiskTicks * CoarseStep)
    \/ NewRiskScorer(DefaultWeights)
    \/ AddRoute("LAX-NYC")
    \/ \E b \in RouteBatches : GetRoutesPass(b)

PassSpec == Init /\ [][PassNext]_vars

\* The component scorers on inputs inside the documented ranges.
ComponentNext ==
    \/ Tick(CoarseStep, MaxRiskTicks * CoarseStep)
    \/ NewRiskScorer(DefaultWeights)
    \/ \E i \in InRangeInputs : ComputeRouteRisk("LAX-SHG", i[1], i[2], i[3], i[4])

ComponentSpec == Init /\ [][ComponentNext]_vars

\* Two processes ingest the traffic of one port at the same time.
ConcurrentNext ==
    \E p \in ProcIds :
        \/ \E f \in BOOLEAN : ProcCheck(p, "LAX", f)
        \/ ProcGenerate(p, "LAX")
        \/ ProcOpen(p, "LAX")
        \/ ProcWrite(p, "LAX")
        \/ ProcReturn(p)

ConcurrentSpec == Init /\ [][ConcurrentNext]_vars

-----------------------------------------------------------------------------
(* Properties of the pipelines *)

IngestOps == {"ingest_port_traffic", "ingest_weather_alerts", "ingest_news_articles"}

TTLOf(op) ==
    CASE op = "ingest_port_traffic" -> TrafficTTL
      [] op = "ingest_weather_alerts" -> WeatherTTL
      [] op = "ingest_news_articles" -> NewsTTL

CacheOfOp(op) ==
    CASE op = "ingest_port_traffic" -> trafficCache
      [] op = "ingest_weather_alerts" -> weatherCache
      [] op = "ingest_news_articles" -> newsCache

\* a cache file as _save_cache writes it
WellFormed(file) ==
    /\ file.exists
    /\ file.text = "json"
    /\ file.json.type = "dict"
    /\ {"timestamp", "data"} \subseteq DOMAIN file.json.v
    /\ fromisoformat(file.json.v["timestamp"]).exc = "none"

StampOf(file) == fromisoformat(file.json.v["timestamp"]).val
ValueOf(file) == file.json.v["data"]

\* every record of a returned value carries the time stamp of time t
GeneratedAt(op, ret, t) ==
    IF op = "ingest_port_traffic"
    THEN ret["timestamp"] = isoformat(t)
    ELSE Len(ret) > 0 /\ \A i \in 1..Len(ret) : ret[i].timestamp = isoformat(t)

\* C1: a non-forced ingest that returns was either served by the adapter
\* during the call, or returns the data of an entry whose age at the time of
\* the call is below the TTL of its pipeline.
C1_NoStaleRead ==
    (last.op \in IngestOps /\ ~last.force /\ last.exc = "none") =>
        IF last.adapter_called
        THEN GeneratedAt(last.op, last.ret, last.at)
        ELSE LET f == FileAt(CacheOfOp(last.op), last.key)
             IN  /\ WellFormed(f)
                 /\ last.at - StampOf(f) < TTLOf(last.op)
                 /\ last.ret = ValueOf(f)

\* a non-forced call was served from an entry written at an earlier time
C1_Witness ==
    /\ last.op \in IngestOps /\ ~last.force /\ last.exc = "none"
    /\ ~last.adapter_called
    /\ StampOf(FileAt(CacheOfOp(last.op), last.key)) < last.at

\* the times at which the validity of an entry is probed: the clock values
\* of the model and the seconds around both ends of the entry's window
ProbeTimes(stamp, ttl) ==
    { i * CoarseStep : i \in 0..(MaxTicks + 4) } \cup
    { stamp, stamp + 1, stamp + ttl - 1, stamp + ttl, stamp + ttl + 1 }

\* C2, state part: the validity check of every cache entry, asked at any
\* time u, answers true from its stamp up to (not including) stamp + TTL and
\* false after stamp + TTL.
C2_ValidWindow ==
    \A op \in IngestOps : \A k \in DOMAIN CacheOfOp(op) :
        LET f == CacheOfOp(op)[k]
            ttl == TTLOf(op)
        IN  /\ WellFormed(f)
            /\ \A u \in ProbeTimes(StampOf(f), ttl) :
                 LET valid == _is_cache_valid(f.json, u, ttl)
                 IN  /\ valid.exc = "none"
                     /\ (StampOf(f) <= u /\ u < StampOf(f) + ttl) => valid.val
                     /\ (u > StampOf(f) + ttl) => ~valid.val

\* C2, step part: an entry judged invalid now and not rewritten by the step
\* is judged invalid after the step.
C2_StaysInvalid ==
    \A op \in IngestOps :
        \A k \in DOMAIN CacheOfOp(op) :
            LET f == CacheOfOp(op)[k]
            IN  (/\ ~_is_cache_valid(f.json, now, TTLOf(op)).val
                 /\ k \in DOMAIN CacheOfOp(op)'
                 /\ CacheOfOp(op)'[k] = f)
                => ~_is_cache_valid(f.json, now', TTLOf(op)).val

\* C2: cache validity is monotonic in time.
C2_ValidityMonotonic == [](C2_ValidWindow) /\ [][C2_StaysInvalid]_vars

\* an entry of the news cache that was served inside its window has
\* outlived its TTL
C2_Witness ==
    /\ last.op = "ingest_news_articles" /\ ~last.adapter_called /\ last.exc = "none"
    /\ \E k \in DOMAIN newsCache :
         /\ now > StampOf(newsCache[k]) + NewsTTL
         /\ ~_is_cache_valid(newsCache[k].json, now, NewsTTL).val
         /\ _is_cache_valid(newsCache[k].json, last.at, NewsTTL).val

\* C3: a non-forced ingest of a key whose entry, as written by an earlier
\* ingest, is younger than the TTL returns the stored value, does not call
\* the adapter and leaves the entry as it was.
C3_HitIdempotent ==
    (/\ last.op \in IngestOps /\ ~last.force
     /\ WellFormed(last.pre)
     /\ StampOf(last.pre) <= last.at
     /\ last.at < StampOf(last.pre) + TTLOf(last.op))
    => /\ last.exc = "none"
       /\ ~last.adapter_called
       /\ last.ret = ValueOf(last.pre)
       /\ FileAt(CacheOfOp(last.op), last.key) = last.pre

\* a non-forced call at the last clock value inside the window of an entry
\* written at an earlier time
C3_Witness ==
    /\ last.op \in IngestOps /\ ~last.force
    /\ WellFormed(last.pre)
    /\ StampOf(last.pre) < last.at
    /\ last.at < StampOf(last.pre) + TTLOf(last.op)
    /\ last.at + CoarseStep >= StampOf(last.pre) + TTLOf(last.op)
    /\ last.ret = ValueOf(last.pre)

\* C4, state part: a forced ingest calls the adapter whatever the entry, and
\* when the adapter answers, the entry holds the returned fresh value stamped
\* with the time of the call.
C4_ForcedWritesThrough ==
    (last.op \in IngestOps /\ last.force) =>
        /\ last.adapter_called
        /\ last.exc = "none" =>
             LET f == FileAt(CacheOfOp(last.op), last.key)
             IN  /\ GeneratedAt(last.op, last.ret, last.at)
                 /\ WellFormed(f)
                 /\ StampOf(f) = last.at
                 /\ ValueOf(f) = last.ret

\* C4, step part: the non-forced ingest of the same key that follows a
\* forced one within the TTL returns the value the forced one returned.
C4_NextReadsFresh ==
    (/\ last.op \in IngestOps /\ last.force /\ last.exc = "none"
     /\ last'.op = last.op /\ last'.key = last.key /\ ~last'.force
     /\ last'.at < last.at + TTLOf(last.op))
    => (last'.exc = "none" /\ ~last'.adapter_called /\ last'.ret = last.ret)

\* C4: force_refresh bypasses the validity check and writes through.
C4_ForceRefresh == [](C4_ForcedWritesThrough) /\ [][C4_NextReadsFresh]_vars

\* a forced ingest has replaced an entry that was still valid
C4_Witness ==
    /\ last.op \in IngestOps /\ last.force /\ last.exc = "none"
    /\ WellFormed(last.pre)
    /\ last.at < StampOf(last.pre) + TTLOf(last.op)
    /\ StampOf(last.pre) < last.at
    /\ StampOf(FileAt(CacheOfOp(last.op), last.key)) = last.at

\* a file that exists and is not as _save_cache writes it
Corrupt(file) == file.exists /\ ~WellFormed(file)

\* C6: a non-forced ingest that finds a corrupt entry raises nothing of its
\* own, calls the adapter and, when the adapter answers, overwrites the entry
\* with the fresh value.
C6_CorruptIsMiss ==
    (last.op \in IngestOps /\ ~last.force /\ Corrupt(last.pre)) =>
        /\ last.exc \in {"none", "SourceUnavailable"}
        /\ last.adapter_called
        /\ last.exc = "none" =>
             LET f == FileAt(CacheOfOp(last.op), last.key)
             IN  WellFormed(f) /\ StampOf(f) = last.at /\ ValueOf(f) = last.ret

\* C7: a fault of the source adapter is not propagated to the caller of an
\* ingest: the call returns the last valid entry or a neutral default.
C7_SourceFaultRecovered ==
    (last.op \in IngestOps /\ last.adapter_called) => last.exc = "none"

-----------------------------------------------------------------------------
(* Properties of the orchestrator *)

OrchOps == {"ingest_all_data", "ingest_route_data"}

\* C5: when a forced ingest_all_data or ingest_route_data completes, every
\* value it returns was regenerated by the adapter during that call; none
\* comes from a cache entry written before the call.
C5_ForcedPassIsFull ==
    (last.op \in OrchOps /\ last.force /\ last.exc = "none") =>
        \A i \in DOMAIN last.ret : last.ret[i].adapter_called

-----------------------------------------------------------------------------
(* Properties of the background loop *)

Sleeping == {"sleep_interval", "sleep_backoff"}
Horizon == MaxLoopTicks * FineStep

\* a cycle never ends the loop; after a cycle that completed the loop sleeps
\* the interval, after a cycle that raised it sleeps the backoff
C8_SleepsAfterCycle ==
    /\ loop_pc # "terminated"
    /\ loop_pc = "sleep_interval" =>
         last.exc = "none" /\ wakeAt = last.at + IntervalSeconds
    /\ loop_pc = "sleep_backoff" =>
         last.exc # "none" /\ wakeAt = last.at + BackoffSeconds

\* the next cycle does not start before the sleep is over
C8_WaitsOut ==
    (loop_pc \in Sleeping /\ loop_pc' = "run") => now >= wakeAt

\* C8: a fault in a cycle never terminates the background loop: after a
\* cycle that completes it waits the interval (300 s), after a cycle that
\* raises it waits the backoff (60 s), and then the next cycle is started;
\* a started loop always goes on to a further cycle (for sleeps that end
\* within the clock's horizon).
C8_LoopNeverStops ==
    /\ [](C8_SleepsAfterCycle)
    /\ [][C8_WaitsOut]_vars
    /\ (loop_pc \in Sleeping /\ wakeAt <= Horizon) ~> (loop_pc = "run")
    /\ (loop_pc = "run") ~> (loop_pc \in Sleeping)

\* the loop is about to start the cycle that follows a failed one, the
\* backoff and not the whole interval after it
C8_Witness ==
    /\ loop_pc = "run"
    /\ last.op = "ingest_all_data"
    /\ last.exc = "SourceUnavailable"
    /\ now >= last.at + BackoffSeconds
    /\ now < last.at + IntervalSeconds

-----------------------------------------------------------------------------
(* Properties of the scorer *)

Constructed == last.op = "RiskScorer" /\ last.exc = "none"

\* non-negative weights, not all zero
ValidWeights(w) ==
    /\ \A i \in DOMAIN WeightNames : w[WeightNames[i]] >= 0
    /\ SumOfArgs(w) > 0

\* C9: for every valid weight vector given to the constructor, the four
\* stored weights sum to 1 and each is its argument divided by the sum of
\* the four arguments (in exact arithmetic).
C9_WeightsNormalized ==
    (Constructed /\ ValidWeights(weights)) =>
        LET total == weights.weather + weights.sentiment
                     + weights.congestion + weights.historical
        IN  /\ AddFrac(AddFrac(scorer.weather_weight, scorer.sentiment_weight),
                       AddFrac(scorer.congestion_weight, scorer.historical_weight))
               = [num |-> 1, den |-> 1]
            /\ scorer.weather_weight.num * total
               = weights.weather * scorer.weather_weight.den
            /\ scorer.sentiment_weight.num * total
               = weights.sentiment * scorer.sentiment_weight.den
            /\ scorer.congestion_weight.num * total
               = weights.congestion * scorer.congestion_weight.den
            /\ scorer.historical_weight.num * total
               = weights.historical * scorer.historical_weight.den

\* a scorer built from unequal weights given in increasing order, the
\* smallest first and none of them the default
C9_Witness ==
    /\ Constructed
    /\ weights = [weather |-> 0, sentiment |-> 1, congestion |-> 2, historical |-> 3]
    /\ scorer.historical_weight = [num |-> 1, den |-> 2]
    /\ scorer.weather_weight = [num |-> 0, den |-> 1]

\* C10: constructing the scorer with a negative weight fails; a vector with
\* a negative weight is never renormalized into a usable scorer.
C10_NegativeWeightRejected ==
    (last.op = "RiskScorer"
     /\ \E i \in DOMAIN WeightNames : weights[WeightNames[i]] < 0)
        => last.exc # "none"


-----------------------------------------------------------------------------
(* Properties of the scoring calls *)

InUnit(x) == GeqFrac(x, Zero) /\ GeqFrac(One, x)

ComponentNames == {"weather", "sentiment", "congestion", "historical"}

\* C11: each of the four component scorers returns a value in [0,1] for
\* every input, inputs outside the documented ranges included.
C11_ComponentsInUnit ==
    last.op = "compute_route_risk" =>
        \A c \in ComponentNames : InUnit(last.ret.components[c])

\* the level the claim gives a total: high from 0.7 on, medium from 0.4 up
\* to 0.7, low below 0.4
LevelOf(total) ==
    IF ~LessFrac(total, Frac(7, 10)) THEN "high"
    ELSE IF ~LessFrac(total, Frac(4, 10)) THEN "medium"
    ELSE "low"

\* C12: the risk level is a function of total_risk alone, with closed-above
\* boundaries: high iff total >= 0.7, medium iff 0.4 <= total < 0.7, low iff
\* total < 0.4, for compute_route_risk and for predict_risk_level.
C12_LevelBoundaries ==
    /\ last.op = "compute_route_risk" =>
         last.ret.risk_level = LevelOf(last.ret.total_risk)
    /\ last.op = "predict_risk_level" => last.ret = LevelOf(last.key)

\* an assessment whose total is exactly 0.7 came out high
C12_Witness ==
    /\ last.op = "compute_route_risk"
    /\ last.ret.total_risk = Frac(7, 10)
    /\ last.ret.risk_level = "high"

\* C13: in every assessment total_risk is the sum of the reported components
\* times the reported weights and lies in [0,1]; with all four components 1
\* under the default weights the total is 1 and the level is high.
C13_TotalIsWeightedSum ==
    last.op = "compute_route_risk" =>
        LET r == last.ret
        IN  /\ r.total_risk =
                 AddFrac(AddFrac(MulFrac(r.components.weather, r.weights.weather),
                                 MulFrac(r.components.sentiment, r.weights.sentiment)),
                         AddFrac(MulFrac(r.components.congestion, r.weights.congestion),
                                 MulFrac(r.components.historical, r.weights.historical)))
            /\ InUnit(r.total_risk)
            /\ (weights = DefaultWeights /\ \A c \in ComponentNames : r.components[c] = One)
                 => (r.total_risk = One /\ r.risk_level = "high")

\* an assessment without its timestamp
BarTimestamp(r) == [k \in DOMAIN r \ {"timestamp"} |-> r[k]]

C14_SameAsFirst ==
    (last.op = "compute_route_risk" /\ probe # << >> /\ last.key = probe.key) =>
        BarTimestamp(last.ret) = BarTimestamp(probe.ret)

C14_SelfUnchanged ==
    (scorer # << >> /\ last'.op = "compute_route_risk") =>
        (scorer' = scorer /\ weights' = weights)

-----------------------------------------------------------------------------
(* Properties of the registry *)

Min(a, b) == IF a < b THEN a ELSE b

\* the route ids of a sequence of routes
IdsOf(rs) == { rs[i].route_id : i \in 1..Len(rs) }

-----------------------------------------------------------------------------
(* Properties of the handlers *)

Assessed == last.op \in {"get_routes", "get_route_details"}

\* the place of a severity in none < light < moderate < severe < extreme
SeverityOrder == <<"none", "light", "moderate", "severe", "extreme">>
Ordinal(severity) == CHOOSE i \in 1..Len(SeverityOrder) : SeverityOrder[i] = severity

\* C15: the weather a route is scored with is the record, of its two ports'
\* records, with the higher severity ordinal, and the origin's record when
\* the ordinals are equal; its severity is the maximum of the two.
C15_WorstWeather ==
    Assessed =>
        LET o == last.key.origin_port.weather
            d == last.key.destination_port.weather
            w == last.ret.weather_data
        IN  /\ Ordinal(o.severity) > Ordinal(d.severity) => w = o
            /\ Ordinal(o.severity) < Ordinal(d.severity) => w = d
            /\ Ordinal(o.severity) = Ordinal(d.severity) => w = o
            /\ Ordinal(w.severity) = MaxInt(Ordinal(o.severity), Ordinal(d.severity))

\* origin moderate, destination extreme: the destination's record
C15_Witness ==
    /\ last.op = "get_routes"
    /\ last.key.origin_port.weather.severity = "moderate"
    /\ last.key.destination_port.weather.severity = "extreme"
    /\ last.ret.weather_data = last.key.destination_port.weather
    /\ last.ret.weather_data # last.key.origin_port.weather

\* C16: on the list path and on the detail path alike, the congestion input
\* of the scorer has the maximum of the two ports' congestion indices, the
\* maximum of their wait times and the average of their vessel counts (in
\* whole vessels), so both paths score the same input for the same ports.
C16_CongestionMerge ==
    Assessed =>
        LET o == last.key.origin_port.traffic
            d == last.key.destination_port.traffic
            c == last.ret.congestion_data
        IN  /\ c.congestion_index = MaxFrac(CongestionOf(o), CongestionOf(d))
            /\ c.wait_time_hours = F(MaxInt(o.wait_time_hours, d.wait_time_hours))
            /\ c.vessel_count = F((o.vessel_count + d.vessel_count) \div 2)

-----------------------------------------------------------------------------
(* Properties of the cascade forecasters *)

Forecast == last.op \in {"predict_cascading_delays", "forecast_delay_cascade"}

\* the dependents the graph lists for a route
DependentsOf(graph, route_id) ==
    IF graph.type = "dict" /\ route_id \in DOMAIN graph.v THEN graph.v[route_id]
    ELSE << >>

\* the base delay a forecast gives the route d, 0 for a route it has none for
OwnBaseDelay(forecasts, d) ==
    IF \E j \in 1..Len(forecasts) : forecasts[j].route_id = d
    THEN forecasts[CHOOSE j \in 1..Len(forecasts) : forecasts[j].route_id = d].base_delay
    ELSE Zero

\* the sum over the dependents deps[k..] of 0.3 times their own base delay
RECURSIVE SumOfDependents(_, _, _)
SumOfDependents(forecasts, deps, k) ==
    IF k > Len(deps) THEN Zero
    ELSE AddFrac(MulFrac(Frac(3, 10), OwnBaseDelay(forecasts, deps[k])),
                 SumOfDependents(forecasts, deps, k + 1))

\* C17: in both forecasters the cascading delay of a route is the sum, over
\* the dependents the graph lists for it, of 0.3 times the dependent's own
\* base delay, and its predicted delay is its base delay plus that.
C17_CascadeOfDependents ==
    Forecast =>
        \A i \in 1..Len(last.ret) :
            LET f == last.ret[i]
            IN  /\ f.cascading_delay =
                     SumOfDependents(last.ret, DependentsOf(last.key.graph, f.route_id), 1)
                /\ f.predicted_delay_hours = AddFrac(f.base_delay, f.cascading_delay)

\* C18: with no graph or an empty one a forecaster returns one forecast for
\* each assessment, in the order given, with no cascading delay and a
\* predicted delay equal to the base delay.
C18_NoGraphNoCascade ==
    (Forecast /\ (last.key.graph = None \/ last.key.graph = Dict(EmptyDict))) =>
        /\ Len(last.ret) = Len(last.key.route_risks)
        /\ \A i \in 1..Len(last.ret) :
             /\ last.ret[i].route_id = last.key.route_risks[i].route_id
             /\ last.ret[i].cascading_delay = Zero
             /\ last.ret[i].predicted_delay_hours = last.ret[i].base_delay

\* three assessments with delays forecast without a graph
C18_Witness ==
    /\ last.op = "predict_cascading_delays"
    /\ last.key.graph = None
    /\ Len(last.ret) = 3
    /\ last.ret[1].route_id = "c"
    /\ LessFrac(Zero, last.ret[3].base_delay)

-----------------------------------------------------------------------------
(* Properties of requests with unknown identifiers *)

\* C20: a request for a port or route id that is not in the registry ends
\* in a failure reported to its caller: it returns no data of another route,
\* stores no cache entry under the unknown id and is not silently a no-op.
C20_UnknownSurfaced ==
    /\ last.op \in {"ingest_port_traffic", "ingest_route_data", "update_route_risk"}
         => last.exc # "none"
    /\ last.op = "get_route_details"
         => (last.exc # "none" /\ last.key.route_id = last.ret.route_id)
    /\ UnknownPortId \notin DOMAIN trafficCache

-----------------------------------------------------------------------------
(* Properties of the pipeline queries *)

\* the alerts the ingest of all regions holds
IngestedAlerts == weatherCache["all"].json.v.data

\* still active at time t
StillActive(alert, t) ==
    t - fromisoformat(alert.timestamp).val < alert.duration_hours * 3600

\* among the ingested alerts, those the claim selects for min_severity
SelectedAlerts(min_severity, t) ==
    LET keep(alert) == /\ Ordinal(alert.severity) >= Ordinal(min_severity)
                       /\ StillActive(alert, t)
    IN  SelectSeq(IngestedAlerts, keep)

\* C21: get_active_alerts(min_severity) returns exactly the ingested alerts
\* whose severity ordinal is at least that of min_severity and that are
\* still active, for every min_severity of the scale, 'none' and 'light'
\* included.
C21_ActiveAlerts ==
    last.op = "get_active_alerts" => last.ret = SelectedAlerts(last.key, last.at)

\* an article record the query can read
Readable(a) == ReadArticle(a) = "none"

\* the stored articles the claim selects for a query made at time t
SelectedArticles(q, t) ==
    { a \in { articleStore[id] : id \in DOMAIN articleStore } :
        /\ Readable(a)
        /\ q.port_id # "" => a.port_id = q.port_id
        /\ t - fromisoformat(a.timestamp).val <= q.hours * 3600
        /\ q.min_sentiment # None => a.sentiment_score <= q.min_sentiment.v }

\* C22: get_recent_articles returns exactly the stored articles of the port
\* selected, inside the window and, with a ceiling, of a sentiment not above
\* it, newest first; records it cannot read are skipped, and it never fails.
C22_RecentArticles ==
    last.op = "get_recent_articles" =>
        /\ last.exc = "none"
        /\ { last.ret[i] : i \in 1..Len(last.ret) } = SelectedArticles(last.key, last.at)
        /\ Len(last.ret) = Cardinality(SelectedArticles(last.key, last.at))
        /\ \A i, j \in 1..Len(last.ret) :
             i < j => fromisoformat(last.ret[i].timestamp).val
                          >= fromisoformat(last.ret[j].timestamp).val

\* the article is in the store under its id
Stored(a) == a.article_id \in DOMAIN articleStore /\ articleStore[a.article_id] = a

\* C30: a news ingest that generates stores every article it generated under
\* the article's id, and the articles the previous ingest of the same key
\* generated and stored are still in the store: storing never overwrites a
\* different article.
C30_ArticlesKept ==
    (last.op = "ingest_news_articles" /\ last.adapter_called /\ last.exc = "none") =>
        /\ \A i \in 1..Len(last.ret) : Stored(last.ret[i])
        /\ WellFormed(last.pre) =>
             \A i \in 1..Len(ValueOf(last.pre)) : Stored(ValueOf(last.pre)[i])

\* the history log of a port, empty while the file does not exist
HistoryOf(port_id) == Get(portHistory, port_id, << >>)

\* C23: an ingest_port_traffic call that generated and wrote the cache has
\* appended the record to the port's history log, and the log holds at that
\* moment only records of the trailing 7 days.
C23_HistoryAppended ==
    (last.op = "ingest_port_traffic" /\ last.adapter_called /\ last.exc = "none") =>
        LET history == HistoryOf(last.key)
        IN  /\ history # << >>
            /\ history[Len(history)].timestamp = isoformat(last.at)
            /\ history[Len(history)].vessel_count = last.ret.vessel_count
            /\ \A i \in 1..Len(history) :
                 last.at - fromisoformat(history[i].timestamp).val <= 7 * 86400

\* C24: a scoring pass over a batch in which a route lacks the weather
\* record of an endpoint, has an empty traffic record or has no news ends
\* without a fault and returns an assessment for every route of the batch.
C24_PartialDataScored ==
    last.op = "get_routes_pass" =>
        /\ last.exc = "none"
        /\ \A i \in 1..Len(last.key) :
             \E j \in 1..Len(last.ret) : last.ret[j].route_id = last.key[i].route_id

\* C25: an ingest_port_traffic call that generates while the previous entry
\* of the port is readable returns and caches a record whose
\* previous_vessel_count is the previous entry's vessel count and whose trend
\* is 'increasing' exactly when the new vessel count is strictly greater;
\* with no previous entry the record has no trend.
C25_TrendMarker ==
    (last.op = "ingest_port_traffic" /\ last.adapter_called /\ last.exc = "none") =>
        /\ WellFormed(last.pre) =>
             /\ {"previous_vessel_count", "trend"} \subseteq DOMAIN last.ret
             /\ last.ret.previous_vessel_count = ValueOf(last.pre).vessel_count
             /\ last.ret.trend = "increasing"
                  <=> last.ret.vessel_count > ValueOf(last.pre).vessel_count
             /\ ValueOf(FileAt(trafficCache, last.key)) = last.ret
        /\ ~last.pre.exists =>
             {"previous_vessel_count", "trend"} \cap DOMAIN last.ret = {}

\* a generation that found the same vessel count as the previous entry's
C25_Witness ==
    /\ last.op = "ingest_port_traffic" /\ last.adapter_called /\ last.exc = "none"
    /\ WellFormed(last.pre)
    /\ last.ret.vessel_count = ValueOf(last.pre).vessel_count
    /\ last.ret.trend = "decreasing"

\* min(1, x / cap) of a non-negative x
Capped(x, cap) == IF LessFrac(MulFrac(x, Frac(1, cap)), One) THEN MulFrac(x, Frac(1, cap)) ELSE One

\* the inputs of a compute_route_risk call are inside the documented ranges
InRange(key) ==
    /\ key[2].severity \in AllSeverities
    /\ GeqFrac(key[2].duration_hours, Zero)
    /\ GeqFrac(key[3].sentiment_score, F(-1)) /\ GeqFrac(One, key[3].sentiment_score)
    /\ GeqFrac(key[3].article_count, Zero) /\ GeqFrac(key[3].urgency_keywords, Zero)
    /\ InUnit(key[4].congestion_index)
    /\ GeqFrac(key[4].wait_time_hours, Zero) /\ GeqFrac(key[4].vessel_count, Zero)
    /\ key[5] # None => /\ InUnit(key[5].v.disruption_rate)
                        /\ GeqFrac(key[5].v.recent_disruptions, Zero)

\* the reference formulas of the four components
RefWeather(w) ==
    LET x == MulFrac(MulFrac(severity_map(w.severity), type_multipliers(w.type)),
                     AddFrac(Frac(7, 10), MulFrac(Frac(3, 10), Capped(w.duration_hours, 48))))
    IN  IF LessFrac(x, One) THEN x ELSE One
RefSentiment(d) ==
    MulFrac(MulFrac(SubFrac(One, d.sentiment_score), Frac(1, 2)),
            AddFrac(AddFrac(Frac(6, 10), MulFrac(Frac(2, 10), Capped(d.article_count, 10))),
                    MulFrac(Frac(2, 10), Capped(d.urgency_keywords, 5))))
RefCongestion(c) ==
    AddFrac(AddFrac(MulFrac(Frac(5, 10), c.congestion_index),
                    MulFrac(Frac(3, 10), Capped(c.wait_time_hours, 72))),
            MulFrac(Frac(2, 10), Capped(c.vessel_count, 50)))
RefHistorical(h) ==
    IF h = None THEN Frac(1, 10)
    ELSE AddFrac(MulFrac(Frac(7, 10), h.v.disruption_rate),
                 MulFrac(Frac(3, 10), Capped(h.v.recent_disruptions, 3)))

\* C26: on inputs inside the documented ranges each component of an
\* assessment equals its reference formula; extreme hurricane for 48 h gives
\* weather 1, sentiment -1 with 10 articles and 5 urgency keywords gives
\* sentiment 1, all-zero congestion gives 0, no history gives 0.1.
C26_ReferenceFormulas ==
    (last.op = "compute_route_risk" /\ InRange(last.key)) =>
        LET c == last.ret.components
        IN  /\ c.weather = RefWeather(last.key[2])
            /\ c.sentiment = RefSentiment(last.key[3])
            /\ c.congestion = RefCongestion(last.key[4])
            /\ c.historical = RefHistorical(last.key[5])
            /\ last.key[2] = WeatherData("extreme", "hurricane", 48) => c.weather = One
            /\ last.key[3] = SentimentData(-1, 10, 5) => c.sentiment = One
            /\ last.key[4] = CongestionData(Zero, 0, 0) => c.congestion = Zero

\* the three scenarios in one call, without history
C26_Witness ==
    /\ last.op = "compute_route_risk" /\ InRange(last.key)
    /\ last.key[2] = WeatherData("extreme", "hurricane", 48)
    /\ last.key[3] = SentimentData(-1, 10, 5)
    /\ last.key[4] = CongestionData(Zero, 0, 0)
    /\ last.key[5] = None
    /\ last.ret.components = [weather |-> One, sentiment |-> One, congestion |-> Zero,
                              historical |-> Frac(1, 10)]

\* the registry's record of a route
RegistryRecord(route_id) == { routes[i] : i \in { n \in 1..Len(routes) : routes[n].route_id = route_id } }

\* C27: in every state each registered route's risk_level is the level the
\* thresholds give its risk_score, and after a scoring pass the registry's
\* record of every route scored carries the score and the level of the
\* assessment the pass returned for it.
C27_RegistryConsistent ==
    /\ \A i \in 1..Len(routes) : routes[i].risk_level = LevelOf(routes[i].risk_score)
    /\ (last.op = "get_routes_pass" /\ last.exc = "none") =>
         \A j \in 1..Len(last.ret) :
            \A r \in RegistryRecord(last.ret[j].route_id) :
                /\ r.risk_score = last.ret[j].risk_score
                /\ r.risk_level = last.ret[j].risk_level

\* a pass has scored two registered routes and moved one out of level low
C27_Witness ==
    /\ last.op = "get_routes_pass" /\ last.exc = "none" /\ Len(last.ret) = 2
    /\ \A j \in 1..2 : RegistryRecord(last.ret[j].route_id) # {}
    /\ \E i \in 1..Len(routes) : routes[i].risk_level # "low"

\* the assessment carries the level of its total, and the total is in [0,1]
Consistent(route_risk) ==
    /\ InUnit(route_risk.total_risk)
    /\ route_risk.risk_level = LevelOf(route_risk.total_risk)

\* C29: both forecasters give every consistent assessment a base delay and a
\* predicted delay that are not negative, and of two consistent assessments
\* the one with the higher total risk never gets the smaller base delay.
C29_DelaysWellFormed ==
    last.op \in {"predict_cascading_delays", "forecast_delay_cascade"} =>
        LET rr == last.key.route_risks
            out == last.ret
        IN  /\ Len(out) = Len(rr)
            /\ \A i \in 1..Len(rr) :
                 Consistent(rr[i]) =>
                    /\ GeqFrac(out[i].base_delay, Zero)
                    /\ GeqFrac(out[i].predicted_delay_hours, Zero)
            /\ \A i, j \in 1..Len(rr) :
                 (Consistent(rr[i]) /\ Consistent(rr[j])
                  /\ GeqFrac(rr[j].total_risk, rr[i].total_risk))
                 => GeqFrac(out[j].base_delay, out[i].base_delay)

\* a forecast of the second variant over the three bands, with a graph
C29_Witness ==
    /\ last.op = "forecast_delay_cascade" /\ last.key.graph # None
    /\ Len(last.ret) = 3
    /\ { last.key.route_risks[i].risk_level : i \in 1..3 } = {"low", "medium", "high"}
    /\ \A i \in 1..3 : Consistent(last.key.route_risks[i])
    /\ \E i \in 1..3 : LessFrac(Zero, last.ret[i].base_delay)
                       /\ LessFrac(last.ret[i].base_delay, F(6))

\* no process is between the open and the write of _save_cache
NoWriteInProgress == \A p \in ProcIds : procs[p].pc # "write"

\* a complete traffic record
CompleteRecord(data) == {"port_id", "vessel_count", "timestamp"} \subseteq DOMAIN data

\* C28, the reader: an ingest whose check of the cache is interleaved with the
\* regeneration of the entry raises nothing and is served a complete record
\* or misses.
C28_ReaderSafe ==
    \A p \in ProcIds :
        /\ procs[p].exc = "none"
        /\ procs[p].seen = "hit" => CompleteRecord(procs[p].ret)

\* C28, the writers: once no write is in progress the entry is a complete
\* value that one of the processes wrote.
C28_EntryComplete ==
    (NoWriteInProgress /\ FileAt(trafficCache, "LAX").exists) =>
        /\ WellFormed(FileAt(trafficCache, "LAX"))
        /\ \E p \in ProcIds : ValueOf(FileAt(trafficCache, "LAX")) = procs[p].wrote

=============================================================================
